---- MODULE Spec2Model ----
(***************************************************************************)
(* Command-stream pipeline of the immediate context (D3D11ImmediateContext *)
(* and D3D9DeviceEx): the producer appends commands to the current chunk,  *)
(* publishes chunks to the worker (CS thread), the worker records them in  *)
(* order into a native command list and submits it on a flush command.     *)
(***************************************************************************)
EXTENDS Integers, Sequences, FiniteSets, TLC

\* ------------------------------------------------------------ constants
MinFlushIntervalUs == 750
IncFlushIntervalUs == 250
MaxPendingSubmits == 6

\* ------------------------------------------------------------ bounds
\* commands emitted by the producer in one run (constructor command included)
MaxCmds == 6
\* commands issued in one run of the mapping specifications
MaxMapCmds == 5
MaxLayoutCmds == 10
\* commands issued in one run of the buffer mapping specification
MaxBufferCmds == 4
\* clock range, in steps of IncFlushIntervalUs
MaxTicks == 10
\* commands one chunk holds before EmitCs has to publish it
ChunkCapacity == 3
\* submissions already pending on the device when a policy run starts
MaxInitPending == 8
\* commands issued in one run of the flush-hint specification
MaxHintCmds == 5
\* commands issued in one run of the draw specification
MaxDrawCmds == 9
\* commands issued in one run of the state-block specification
MaxBlockCmds == 3
MaxHazardCmds == 9
MaxMaskCmds == 8
\* commands a run of the dirty-set specification may issue
MaxDirtyCmds == 7
\* commands a run with device resets may issue
MaxResetCmds == 12

VARIABLES
  api,          \* "d3d11" (D3D11ImmediateContext) or "d3d9" (D3D9DeviceEx)
  opt,          \* the device options
  budget,       \* how many commands the run may issue
  now,          \* high_resolution_clock::now(), in microseconds
  m_lastFlush,  \* time of the last flush that submitted something
  m_csIsBusy,   \* chunks were dispatched since the last flush
  m_csChunk,    \* the current chunk: commands appended, not yet published
  csQueue,      \* chunks published to the worker and not yet finished
  issued,       \* every command in the order the producer appended it
  buffer,       \* the mappable buffer: map mode, mapped slice, map flags
  texture,      \* the mappable texture: its kind and per-subresource map state
  nextSlice,    \* per DxvkBuffer, the slices allocSlice has handed out
  app,          \* per subresource, the pointer the application holds
  pc,           \* where the producer is inside a blocking call
  ret,          \* the last API call that returned, with its result
  cmdList,      \* the worker's open command list: resources used, copies
  gpuQueue,     \* submitted command lists the GPU has not completed
  physSlice,    \* per DxvkBuffer, the slice the worker has made current
  mem,          \* contents of the image subresources and staging slices
  executed,     \* every command in the order the worker executed it
  query,        \* the event query: its stall count
  m_state,      \* D3D9 state vector: bound surfaces, render states, shaders
  m_flags,      \* D3D9 device flags: the dirty bits and ValidSampleMask
  m_recorder,   \* D3D9 state block being recorded, or NoRecorder
  hazardous,    \* textures MarkHazardous has moved to the general layout
  lastDraw,     \* the state vector and the command count at the last draw
  m_instancedData, \* D3D9: the streams whose frequency has INSTANCEDATA set
  m_dirtySamplerStates, \* D3D9: the samplers whose state changed since it was bound
  m_iaState,    \* D3D9 input-assembly state the worker's closures keep
  m_chunks,     \* per memory type, the chunks and their free lists
  m_live,       \* the DxvkMemory objects that have not been freed
  m_stats,      \* the heap's memoryAllocated and memoryUsed
  m_featureLevel \* D3D11: the feature level the device advertises

cfgVars == <<api, opt, budget>>
prodVars == <<m_lastFlush, m_csIsBusy, m_csChunk, csQueue, issued>>
mapVars == <<buffer, texture, nextSlice, app>>
workerVars == <<cmdList, gpuQueue, physSlice, executed>>
devVars ==
  <<m_state, m_flags, m_recorder, hazardous, lastDraw, m_instancedData,
    m_dirtySamplerStates>>
allocVars == <<m_chunks, m_live, m_stats>>

vars == <<cfgVars, m_featureLevel, allocVars, m_iaState, query, devVars, now, prodVars, mapVars, pc, ret, workerVars,
          mem>>

\* ------------------------------------------------------------ resources
Res(type, idx) == [type |-> type, idx |-> idx]
NoRes == Res("none", 0)
Buf == Res("buffer", 0)
Img == Res("image", 0)
\* the staging buffer of a D3D9 buffer in BUFFER map mode
BufStaging == Res("bufstaging", 0)
\* the mapped (staging) buffer of image subresource s
Stg(s) == Res("staging", s)
\* the fix-up (copy) buffer of subresource s of a D3D9 texture whose format
\* has no native equivalent
Fix(s) == Res("fixup", s)
Subresources == {0}
\* the subresource indices a caller passes; 1 is out of range
SubresourceArgs == {0, 1}
Buffers == {Buf, BufStaging} \cup {Stg(s) : s \in Subresources}
             \cup {Fix(s) : s \in Subresources}
\* the values the application writes; 0 stands for unspecified contents
Data == {1, 2}

MapTypes == {"READ", "WRITE", "READ_WRITE", "WRITE_DISCARD", "WRITE_NO_OVERWRITE"}
\* D3D11_MAP(~0u): the subresource is not mapped
NotMapped == "NONE"

\* pointers handed to the application
NullPtr == [kind |-> "null"]
ImagePtr(s) == [kind |-> "image", sub |-> s]
SlicePtr(b, n) == [kind |-> "slice", buf |-> b, slice |-> n]

\* the resources a draw can reference: the mappable ones that exist
DrawResources ==
  {r \in {Buf} : buffer.mapMode # "none"} \cup {r \in {Img} : texture.mapMode = "direct"}

\* ------------------------------------------------------------ commands
Cmd(kind, res, arg) == [seq |-> 0, kind |-> kind, res |-> res, arg |-> arg]

\* the resources a command makes the open command list reference
Uses(cmd) ==
  CASE cmd.kind \in {"draw", "listDraw", "updateBuffer"} -> {cmd.res} \ {NoRes}
    [] cmd.kind \in {"copyBufferToImage", "copyPackedBufferToDepthStencilImage",
                     "copyImageToBuffer"} -> {Img, cmd.res}
    [] cmd.kind = "copyBuffer" -> {Buf, cmd.res}
    [] cmd.kind = "generateMipmaps" -> {Img}
    [] cmd.kind = "endQuery" -> {cmd.res}
    [] OTHER -> {}

\* The command list a deferred context recorded: two replayable chunks.
CommandListChunks ==
  << <<Cmd("listDraw", Buf, 1)>>, <<Cmd("listDraw", NoRes, 2)>> >>

RECURSIVE Flatten(_)
Flatten(chunks) ==
  IF chunks = <<>> THEN <<>> ELSE Head(chunks) \o Flatten(Tail(chunks))

\* ------------------------------------------------------------ producer state
(* The producer-side fields an API call reads and writes, threaded through *)
(* the calls a handler makes in sequence.                                  *)
Producer ==
  [chunk |-> m_csChunk, queue |-> csQueue, busy |-> m_csIsBusy,
   last |-> m_lastFlush, issued |-> issued, flushCalls |-> 0]

Stamp(P, chunk) ==
  [i \in 1..Len(chunk) |-> [chunk[i] EXCEPT !.seq = Len(P.issued) + i]]

\* DxvkCsThread::dispatchChunk followed by m_csIsBusy = true
EmitCsChunk(P, chunk) ==
  [P EXCEPT !.queue = Append(P.queue, chunk), !.busy = TRUE]

\* FlushCsChunk: publish the current chunk if it holds a command
FlushCsChunk(P) ==
  IF Len(P.chunk) # 0
    THEN EmitCsChunk([P EXCEPT !.chunk = <<>>], P.chunk)
    ELSE P

\* EmitCs: append to the current chunk; a full chunk is published first
EmitCs(P, cmd) ==
  LET c == [cmd EXCEPT !.seq = Len(P.issued) + 1]
      Q == IF Len(P.chunk) >= ChunkCapacity
             THEN EmitCsChunk([P EXCEPT !.chunk = <<>>], P.chunk)
             ELSE P
  IN  [Q EXCEPT !.chunk = Append(Q.chunk, c), !.issued = Append(Q.issued, c)]

\* Flush that leaves the flush command in the current chunk
FlushNoPublish(P, t) ==
  LET F == [P EXCEPT !.flushCalls = P.flushCalls + 1]
  IN  IF F.busy \/ Len(F.chunk) # 0
        THEN [EmitCs(F, Cmd("flushCommandList", NoRes, 0))
                EXCEPT !.last = t, !.busy = FALSE]
        ELSE F

\* Flush that does not reset the flush timer
FlushNoTimer(P, t) ==
  LET F == [P EXCEPT !.flushCalls = P.flushCalls + 1]
  IN  IF F.busy \/ Len(F.chunk) # 0
        THEN [FlushCsChunk(EmitCs(F, Cmd("flushCommandList", NoRes, 0)))
                EXCEPT !.busy = FALSE]
        ELSE F

\* Flush that looks at the current chunk only
FlushChunkOnly(P, t) ==
  LET F == [P EXCEPT !.flushCalls = P.flushCalls + 1]
  IN  IF Len(F.chunk) # 0
        THEN [FlushCsChunk(EmitCs(F, Cmd("flushCommandList", NoRes, 0)))
                EXCEPT !.last = t, !.busy = FALSE]
        ELSE F

\* Flush at time t
Flush(P, t) ==
  LET F == [P EXCEPT !.flushCalls = P.flushCalls + 1]
  IN  IF F.busy \/ Len(F.chunk) # 0
        THEN [FlushCsChunk(EmitCs(F, Cmd("flushCommandList", NoRes, 0)))
                EXCEPT !.last = t, !.busy = FALSE]
        ELSE F

\* FlushImplicit that ignores the strong hint
FlushImplicitNoHint(P, StrongHint, pending, t) ==
  IF pending <= MaxPendingSubmits
    THEN IF t - P.last >= MinFlushIntervalUs + IncFlushIntervalUs * pending
           THEN Flush(P, t)
           ELSE P
    ELSE P

\* FlushImplicit that does not wait for the flush interval
FlushImplicitNoInterval(P, StrongHint, pending, t) ==
  IF StrongHint \/ pending <= MaxPendingSubmits
    THEN Flush(P, t)
    ELSE P

\* FlushImplicit with `pending` submissions on the device at time t
FlushImplicit(P, StrongHint, pending, t) ==
  IF StrongHint \/ pending <= MaxPendingSubmits
    THEN IF t - P.last >= MinFlushIntervalUs + IncFlushIntervalUs * pending
           THEN Flush(P, t)
           ELSE P
    ELSE P

\* DxvkDevice::pendingSubmissions
pendingSubmissions == Len(gpuQueue)

\* DxvkResource::isInUse: referenced by the open command list or by a
\* submission that has not completed
isInUse(r) ==
  \/ r \in cmdList.use
  \/ \E i \in 1..Len(gpuQueue) : r \in gpuQueue[i].use

Idle == [at |-> "idle", op |-> "none"]

NoReturn ==
  [op |-> "none", hr |-> "none", flushed |-> FALSE, emitted |-> 0,
   base |-> 0, t |-> 0]

\* op returned hr; flushed: the call invoked Flush; emitted: the number of
\* commands the call appended after the first `base`; t: the time of the call
Returned(op, hr, P) ==
  [op |-> op, hr |-> hr, flushed |-> P.flushCalls > 0,
   emitted |-> Len(P.issued) - Len(issued), base |-> Len(issued), t |-> now]

\* Write the producer state back; the rest of the state is the caller's.
Commit(P) ==
  /\ m_csChunk' = P.chunk
  /\ csQueue' = P.queue
  /\ m_csIsBusy' = P.busy
  /\ m_lastFlush' = P.last
  /\ issued' = P.issued

CanEmit(n) == Len(issued) + n <= budget

\* ------------------------------------------------------------ API calls
\* a draw that references resource r
Draw(r) ==
  /\ pc = Idle
  /\ CanEmit(1)
  /\ LET P == EmitCs(Producer, Cmd("draw", r, 0))
     IN  Commit(P) /\ ret' = Returned("Draw", "S_OK", P)
  /\ UNCHANGED <<cfgVars, m_featureLevel, allocVars, m_iaState, query, devVars, now, mapVars, pc, workerVars, mem>>

FlushCall ==
  /\ pc = Idle
  /\ CanEmit(1)
  /\ LET P == Flush(Producer, now)
     IN  Commit(P) /\ ret' = Returned("Flush", "S_OK", P)
  /\ UNCHANGED <<cfgVars, m_featureLevel, allocVars, m_iaState, query, devVars, now, mapVars, pc, workerVars, mem>>

OMSetRenderTargets ==
  /\ pc = Idle
  /\ api = "d3d11"
  /\ CanEmit(2)
  /\ LET P == EmitCs(FlushImplicit(Producer, TRUE, pendingSubmissions, now),
                     Cmd("bindRenderTargets", NoRes, 0))
     IN  Commit(P) /\ ret' = Returned("OMSetRenderTargets", "S_OK", P)
  /\ UNCHANGED <<cfgVars, m_featureLevel, allocVars, m_iaState, query, devVars, now, mapVars, pc, workerVars, mem>>

UpdateSubresource ==
  /\ pc = Idle
  /\ api = "d3d11"
  /\ CanEmit(2)
  /\ LET P == EmitCs(FlushImplicit(Producer, FALSE, pendingSubmissions, now),
                     Cmd("updateBuffer", Buf, 0))
     IN  Commit(P) /\ ret' = Returned("UpdateSubresource", "S_OK", P)
  /\ UNCHANGED <<cfgVars, m_featureLevel, allocVars, m_iaState, query, devVars, now, mapVars, pc, workerVars, mem>>

EndScene ==
  /\ pc = Idle
  /\ api = "d3d9"
  /\ CanEmit(1)
  /\ LET P == FlushImplicit(Producer, TRUE, pendingSubmissions, now)
     IN  Commit(P) /\ ret' = Returned("EndScene", "S_OK", P)
  /\ UNCHANGED <<cfgVars, m_featureLevel, allocVars, m_iaState, query, devVars, now, mapVars, pc, workerVars, mem>>

\* D3D11CommandList::EmitToCsThread: every chunk of the list, in list order
EmitToCsThread(P, chunks) ==
  LET st == Stamp(P, Flatten(chunks))
      RECURSIVE Go(_, _, _)
      Go(Q, cs, k) ==
        IF cs = <<>> THEN Q
        ELSE Go([Q EXCEPT !.queue = Append(Q.queue,
                       SubSeq(st, k + 1, k + Len(Head(cs))))],
                Tail(cs), k + Len(Head(cs)))
  IN  [Go(P, chunks, 0) EXCEPT !.issued = P.issued \o st]

\* ExecuteCommandList that dispatches the list before the current chunk
ExecuteCommandListNoPublish(RestoreContextState) ==
  /\ pc = Idle
  /\ api = "d3d11"
  /\ CanEmit(Len(Flatten(CommandListChunks)) + 2)
  /\ LET P2 == FlushImplicit(Producer, FALSE, pendingSubmissions, now)
         P3 == EmitToCsThread(P2, CommandListChunks)
         P4 == EmitCs(P3, Cmd(IF RestoreContextState THEN "restoreState"
                                                     ELSE "clearState", NoRes, 0))
         P5 == [P4 EXCEPT !.busy = TRUE]
     IN  Commit(P5) /\ ret' = Returned("ExecuteCommandList", "S_OK", P5)
  /\ UNCHANGED <<cfgVars, m_featureLevel, allocVars, m_iaState, query, devVars, now, mapVars, pc, workerVars, mem>>

ExecuteCommandList(RestoreContextState) ==
  /\ pc = Idle
  /\ api = "d3d11"
  /\ CanEmit(Len(Flatten(CommandListChunks)) + 2)
  /\ LET P1 == FlushCsChunk(Producer)
         P2 == FlushImplicit(P1, FALSE, pendingSubmissions, now)
         P3 == EmitToCsThread(P2, CommandListChunks)
         P4 == EmitCs(P3, Cmd(IF RestoreContextState THEN "restoreState"
                                                     ELSE "clearState", NoRes, 0))
         P5 == [P4 EXCEPT !.busy = TRUE]
     IN  Commit(P5) /\ ret' = Returned("ExecuteCommandList", "S_OK", P5)
  /\ UNCHANGED <<cfgVars, m_featureLevel, allocVars, m_iaState, query, devVars, now, mapVars, pc, workerVars, mem>>

\* SynchronizeCsThread that waits without publishing the current chunk
SynchronizeCsThreadCallNoPublish ==
  /\ pc = Idle
  /\ Commit(Producer)
  /\ pc' = [at |-> "synchronize", op |-> "SynchronizeCsThread"]
  /\ ret' = NoReturn
  /\ UNCHANGED <<cfgVars, m_featureLevel, allocVars, m_iaState, query, devVars, now, mapVars, workerVars, mem>>

\* SynchronizeCsThread: publish the current chunk, then wait for the worker
SynchronizeCsThreadCall ==
  /\ pc = Idle
  /\ LET P == FlushCsChunk(Producer)
     IN  Commit(P)
  /\ pc' = [at |-> "synchronize", op |-> "SynchronizeCsThread"]
  /\ ret' = NoReturn
  /\ UNCHANGED <<cfgVars, m_featureLevel, allocVars, m_iaState, query, devVars, now, mapVars, workerVars, mem>>

\* DxvkCsThread::synchronize returns once no published chunk is pending
SynchronizeCsThreadReturn ==
  /\ pc = [at |-> "synchronize", op |-> "SynchronizeCsThread"]
  /\ csQueue = <<>>
  /\ pc' = Idle
  /\ ret' = Returned("SynchronizeCsThread", "S_OK", Producer)
  /\ UNCHANGED <<cfgVars, m_featureLevel, allocVars, m_iaState, query, devVars, now, prodVars, mapVars, workerVars, mem>>

\* ------------------------------------------------------------ mapping
LockFlags == {"DISCARD", "NOOVERWRITE", "READONLY", "DONOTWAIT"}

\* What a handler leaves behind: the producer state, the map bookkeeping,
\* the memory, the producer's position and the call's result.
Keep ==
  [P |-> Producer, buffer |-> buffer, texture |-> texture,
   nextSlice |-> nextSlice, app |-> app, mem |-> mem, pc |-> Idle, ret |-> ret]

Apply(o) ==
  /\ Commit(o.P)
  /\ buffer' = o.buffer
  /\ texture' = o.texture
  /\ nextSlice' = o.nextSlice
  /\ app' = o.app
  /\ mem' = o.mem
  /\ pc' = o.pc
  /\ ret' = o.ret

\* a call that starts now; flushed: Flush has been invoked during the call,
\* waited: the call has gone through WaitForResource
NewCall(fields) ==
  fields @@ [at |-> "wait_cs", base |-> Len(issued), flushed |-> FALSE,
             waited |-> FALSE]

CallReturned(call, hr, ptr, P) ==
  [op |-> call.op, hr |-> hr, ptr |-> ptr,
   flushed |-> call.flushed \/ P.flushCalls > 0,
   emitted |-> Len(P.issued) - call.base, base |-> call.base,
   done |-> Len(executed), inUse |-> isInUse(call.res), call |-> call]

Return(o, call, hr, ptr) ==
  [o EXCEPT !.pc = Idle, !.ret = CallReturned(call, hr, ptr, o.P)]

\* WaitForResource, first part: SynchronizeCsThread publishes the chunk
EnterWait(o, call) ==
  [o EXCEPT !.P = FlushCsChunk(o.P), !.pc = [call EXCEPT !.waited = TRUE],
            !.ret = NoReturn]

\* DxvkBuffer::allocSlice on buffer b: a slice nothing refers to
AllocSlice(o, b) ==
  [o EXCEPT !.nextSlice[b] = @ + 1,
            !.mem = IF b.type = "staging"
                      THEN [o.mem EXCEPT !.stg[b.idx] = Append(@, 0)]
                      ELSE o.mem]

\* the discard path of a map: a fresh slice of b, and one invalidateBuffer
\* command that carries it
DiscardSliceNoInvalidate(o, b) == AllocSlice(o, b)

DiscardSlice(o, b) ==
  [AllocSlice(o, b) EXCEPT
     !.P = EmitCs(o.P, Cmd("invalidateBuffer", b, o.nextSlice[b]))]

\* MapBuffer that keeps DO_NOT_WAIT whatever the option says
MapBufferKeepNoWait(MapType, DoNotWait) ==
  /\ pc = Idle
  /\ api = "d3d11"
  /\ CanEmit(1)
  /\ LET call == NewCall([op |-> "MapBuffer", res |-> Buf, mtype |-> MapType,
                          req |-> DoNotWait, before |-> buffer.mapFlags,
                          nowait |-> DoNotWait])
         n == nextSlice[Buf]
     IN  Apply(
           IF buffer.mapMode = "none"
             THEN Return(Keep, call, "E_INVALIDARG", NullPtr)
           ELSE IF MapType = "WRITE_DISCARD"
             THEN Return([DiscardSlice(Keep, Buf) EXCEPT !.buffer.mappedSlice = n],
                         call, "S_OK", SlicePtr(Buf, n))
           ELSE IF MapType = "WRITE_NO_OVERWRITE"
             THEN Return(Keep, call, "S_OK", SlicePtr(Buf, buffer.mappedSlice))
           ELSE EnterWait(Keep, call))
  /\ UNCHANGED <<cfgVars, m_featureLevel, allocVars, m_iaState, query, devVars, now, workerVars>>

\* D3D11ImmediateContext::MapBuffer (through Map)
MapBuffer(MapType, DoNotWait) ==
  /\ pc = Idle
  /\ api = "d3d11"
  /\ CanEmit(1)
  /\ LET call == NewCall([op |-> "MapBuffer", res |-> Buf, mtype |-> MapType,
                          req |-> DoNotWait, before |-> buffer.mapFlags,
                          nowait |-> DoNotWait /\ opt.allowMapFlagNoWait])
         n == nextSlice[Buf]
     IN  Apply(
           IF buffer.mapMode = "none"
             THEN Return(Keep, call, "E_INVALIDARG", NullPtr)
           ELSE IF MapType = "WRITE_DISCARD"
             THEN Return([DiscardSlice(Keep, Buf) EXCEPT !.buffer.mappedSlice = n],
                         call, "S_OK", SlicePtr(Buf, n))
           ELSE IF MapType = "WRITE_NO_OVERWRITE"
             THEN Return(Keep, call, "S_OK", SlicePtr(Buf, buffer.mappedSlice))
           ELSE EnterWait(Keep, call))
  /\ UNCHANGED <<cfgVars, m_featureLevel, allocVars, m_iaState, query, devVars, now, workerVars>>

\* D3D11ImmediateContext::MapImage (through Map); the application maps a
\* subresource it has not mapped
MapImage(Subresource, MapType, DoNotWait) ==
  /\ pc = Idle
  /\ api = "d3d11"
  /\ Subresource \in Subresources => app[Subresource].ptr = NullPtr
  /\ CanEmit(2)
  /\ LET sb == Stg(Subresource)
         n == nextSlice[sb]
         update == texture.staging /\ ~texture.early
         call == NewCall([op |-> "MapImage", sub |-> Subresource,
                          res |-> IF texture.mapMode = "direct" THEN Img ELSE sb,
                          mtype |-> MapType, req |-> DoNotWait,
                          before |-> texture.mapType,
                          nowait |-> /\ DoNotWait
                                     /\ opt.allowMapFlagNoWait
                                     /\ (texture.mapMode = "direct" \/ ~update)])
         set == [Keep EXCEPT !.texture.mapType[Subresource] = MapType]
     IN  Apply(
           IF texture.mapMode = "none" \/ Subresource \notin Subresources
             THEN Return(Keep, call, "E_INVALIDARG", NullPtr)
           ELSE IF texture.mapMode = "direct"
             THEN EnterWait(set, call)
           ELSE IF MapType = "WRITE_DISCARD"
             THEN Return([DiscardSlice(set, sb) EXCEPT
                            !.app[Subresource] =
                               [ptr |-> SlicePtr(sb, n), wr |-> TRUE, last |-> 0]],
                         call, "S_OK", SlicePtr(sb, n))
           ELSE EnterWait(
                  IF update
                    THEN [set EXCEPT !.P = EmitCs(Producer,
                             Cmd("copyImageToBuffer", sb, Subresource))]
                    ELSE set,
                  call))
  /\ UNCHANGED <<cfgVars, m_featureLevel, allocVars, m_iaState, query, devVars, now, workerVars>>

\* an unmap that forgets the map mode and drops the staging-to-image copy
UnmapImageNoCopy(Subresource) ==
  /\ pc = Idle
  /\ api = "d3d11"
  /\ app[Subresource].ptr # NullPtr
  /\ CanEmit(1)
  /\ Apply(Return([Keep EXCEPT !.texture.mapType[Subresource] = NotMapped,
                               !.app[Subresource].ptr = NullPtr,
                               !.app[Subresource].wr = FALSE],
                  NewCall([op |-> "UnmapImage", sub |-> Subresource,
                           res |-> Stg(Subresource),
                           mtype |-> texture.mapType[Subresource],
                           before |-> texture.mapType]),
                  "void", NullPtr))
  /\ UNCHANGED <<cfgVars, m_featureLevel, allocVars, m_iaState, query, devVars, now, workerVars>>

\* D3D11ImmediateContext::UnmapImage (through Unmap); the application
\* unmaps a subresource it has mapped
UnmapImage(Subresource) ==
  /\ pc = Idle
  /\ api = "d3d11"
  /\ app[Subresource].ptr # NullPtr
  /\ CanEmit(1)
  /\ LET mapType == texture.mapType[Subresource]
         call == NewCall([op |-> "UnmapImage", sub |-> Subresource,
                          res |-> Stg(Subresource), mtype |-> mapType, before |-> texture.mapType])
         o == [Keep EXCEPT !.texture.mapType[Subresource] = NotMapped,
                           !.app[Subresource].ptr = NullPtr,
                           !.app[Subresource].wr = FALSE]
     IN  Apply(
           IF mapType = NotMapped \/ mapType = "READ"
             THEN Return(o, call, "void", NullPtr)
           ELSE IF texture.mapMode = "buffer"
             THEN Return([o EXCEPT !.P = EmitCs(Producer,
                            Cmd(IF texture.packed
                                  THEN "copyPackedBufferToDepthStencilImage"
                                  ELSE "copyBufferToImage",
                                Stg(Subresource), Subresource))],
                         call, "void", NullPtr)
           ELSE Return(o, call, "void", NullPtr))
  /\ UNCHANGED <<cfgVars, m_featureLevel, allocVars, m_iaState, query, devVars, now, workerVars>>

\* the mapping buffer of the D3D9 buffer
MappingBuffer == IF buffer.mapMode = "buffer" THEN BufStaging ELSE Buf

\* D3D9DeviceEx::LockBuffer
LockBuffer(Flags) ==
  /\ pc = Idle
  /\ api = "d3d9"
  /\ CanEmit(1)
  /\ LET F == IF opt.allowLockFlagReadonly THEN Flags ELSE Flags \ {"READONLY"}
         call == NewCall([op |-> "LockBuffer", res |-> MappingBuffer,
                          flags |-> Flags, req |-> "DONOTWAIT" \in Flags,
                          before |-> buffer.mapFlags,
                          nowait |-> "DONOTWAIT" \in F])
         n == nextSlice[MappingBuffer]
         set == [Keep EXCEPT !.buffer.mapFlags = F]
     IN  Apply(
           IF "DISCARD" \in F
             THEN Return([DiscardSlice(set, MappingBuffer) EXCEPT
                            !.buffer.mappedSlice = n],
                         call, "D3D_OK", SlicePtr(MappingBuffer, n))
           ELSE IF "NOOVERWRITE" \notin F /\ buffer.mapMode = "direct"
             THEN EnterWait(set, call)
           ELSE Return(set, call, "D3D_OK",
                       SlicePtr(MappingBuffer, buffer.mappedSlice)))
  /\ UNCHANGED <<cfgVars, m_featureLevel, allocVars, m_iaState, query, devVars, now, workerVars>>

\* D3D9DeviceEx::UnlockBuffer
UnlockBuffer ==
  /\ pc = Idle
  /\ api = "d3d9"
  /\ CanEmit(2)
  /\ LET call == NewCall([op |-> "UnlockBuffer", res |-> Buf,
                          before |-> buffer.mapFlags])
         o == [Keep EXCEPT !.buffer.mapFlags = {}]
     IN  Apply(
           IF buffer.mapMode # "buffer"
             THEN Return(Keep, call, "D3D_OK", NullPtr)
           ELSE IF "READONLY" \in buffer.mapFlags
             THEN Return(o, call, "D3D_OK", NullPtr)
           ELSE Return([o EXCEPT !.P = EmitCs(
                          FlushImplicit(Producer, FALSE, pendingSubmissions, now),
                          Cmd("copyBuffer", BufStaging, 0))],
                       call, "D3D_OK", NullPtr))
  /\ UNCHANGED <<cfgVars, m_featureLevel, allocVars, m_iaState, query, devVars, now, workerVars>>

\* D3D9DeviceEx::LockImage; the application locks a subresource it has not
\* locked.  A buffer that CreateBufferSubresource creates anew keeps the name
\* and the slices of the one DestroyBufferSubresource released.
LockImage(Subresource, Flags) ==
  /\ pc = Idle
  /\ api = "d3d9"
  /\ texture.mapMode # "none"
  /\ app[Subresource].ptr = NullPtr
  /\ CanEmit(2)
  /\ LET F == IF opt.allowLockFlagReadonly THEN Flags ELSE Flags \ {"READONLY"}
         sb == Stg(Subresource)
         alloced == ~texture.hasBuffer[Subresource]
         call == NewCall([op |-> "LockImage", sub |-> Subresource, res |-> sb,
                          flags |-> Flags, req |-> "DONOTWAIT" \in Flags,
                          before |-> <<texture.lockFlags, texture.hasBuffer>>,
                          nowait |-> "DONOTWAIT" \in F])
         set == [Keep EXCEPT !.texture.hasBuffer[Subresource] = TRUE,
                             !.texture.lockFlags[Subresource] = F]
         locked(o, ptr) ==
           Return([o EXCEPT !.app[Subresource] =
                     [ptr |-> ptr, wr |-> "READONLY" \notin F, last |-> @.last]],
                  call, "D3D_OK", ptr)
         gpuImmutable == \/ "READONLY" \in F /\ texture.pool = "MANAGED"
                         \/ texture.pool = "SCRATCH"
     IN  Apply(
           IF "DISCARD" \in F
             THEN locked(DiscardSlice(set, sb), SlicePtr(sb, nextSlice[sb]))
           ELSE IF ~alloced \/ texture.pool \in {"MANAGED", "SYSTEMMEM", "SCRATCH"}
             THEN IF alloced
                    THEN locked([set EXCEPT
                                   !.mem.stg[Subresource][physSlice[sb]] = 0],
                                SlicePtr(sb, physSlice[sb]))
                  ELSE IF "NOOVERWRITE" \notin F /\ ~gpuImmutable
                    THEN EnterWait(set, call)
                  ELSE locked(set, SlicePtr(sb, physSlice[sb]))
           ELSE LET copied == [set EXCEPT !.P = EmitCs(Producer,
                                 Cmd("copyImageToBuffer", sb, Subresource))]
                IN  IF "NOOVERWRITE" \notin F
                      THEN EnterWait(copied, call)
                      ELSE locked(copied, SlicePtr(sb, physSlice[sb])))
  /\ UNCHANGED <<cfgVars, m_featureLevel, allocVars, m_iaState, query, devVars, now, workerVars>>

\* D3D9DeviceEx::FixupFormat: a fresh slice of the fix-up buffer, invalidated
FixupFormat(o, Subresource) == DiscardSlice(o, Fix(Subresource))

\* D3D9DeviceEx::FlushImage: the copy buffer is copied into the image
FlushImage(o, Subresource) ==
  [o EXCEPT !.P = EmitCs(o.P,
     Cmd("copyBufferToImage",
         IF texture.fixup THEN Fix(Subresource) ELSE Stg(Subresource),
         Subresource))]

\* D3D9DeviceEx::GenerateMips
GenerateMips(o) == [o EXCEPT !.P = EmitCs(o.P, Cmd("generateMipmaps", Img, 0))]

\* D3D9DeviceEx::UnlockImage; the application unlocks a subresource it has
\* locked
UnlockImage(Subresource) ==
  /\ pc = Idle
  /\ api = "d3d9"
  /\ app[Subresource].ptr # NullPtr
  /\ CanEmit(3)
  /\ LET call == NewCall([op |-> "UnlockImage", sub |-> Subresource,
                          res |-> Stg(Subresource),
                          flags |-> texture.lockFlags[Subresource],
                          before |-> texture.lockFlags])
         pending == "READONLY" \notin texture.lockFlags[Subresource]
         backed == texture.mapMode = "backed"
         o0 == [Keep EXCEPT !.app[Subresource].ptr = NullPtr,
                            !.app[Subresource].wr = FALSE]
         o1 == IF pending /\ texture.fixup THEN FixupFormat(o0, Subresource) ELSE o0
         o2 == IF pending /\ backed THEN FlushImage(o1, Subresource) ELSE o1
         o3 == IF backed /\ (texture.pool # "MANAGED" \/ opt.evictManagedOnUnlock)
                 THEN [o2 EXCEPT !.texture.hasBuffer[Subresource] = FALSE]
                 ELSE o2
         o4 == IF texture.autoMip THEN GenerateMips(o3) ELSE o3
     IN  Apply(Return(o4, call, "D3D_OK", NullPtr))
  /\ UNCHANGED <<cfgVars, m_featureLevel, allocVars, m_iaState, query, devVars, now, workerVars>>

\* the result of a map whose wait has ended
MapResult(call, ok) ==
  CASE call.op = "MapBuffer" ->
         IF ok THEN <<"S_OK", SlicePtr(Buf, buffer.mappedSlice)>>
               ELSE <<"DXGI_ERROR_WAS_STILL_DRAWING", NullPtr>>
    [] call.op = "MapImage" ->
         IF ~ok THEN <<"DXGI_ERROR_WAS_STILL_DRAWING", NullPtr>>
         ELSE IF texture.mapMode = "direct"
           THEN <<"S_OK", ImagePtr(call.sub)>>
           ELSE <<"S_OK", SlicePtr(Stg(call.sub), physSlice[Stg(call.sub)])>>
    [] call.op = "LockBuffer" ->
         IF ok THEN <<"D3D_OK", SlicePtr(MappingBuffer, buffer.mappedSlice)>>
               ELSE <<"D3DERR_WASSTILLDRAWING", NullPtr>>
    [] call.op = "LockImage" ->
         IF ok THEN <<"D3D_OK", SlicePtr(Stg(call.sub), physSlice[Stg(call.sub)])>>
               ELSE <<"D3DERR_WASSTILLDRAWING", NullPtr>>

\* the map returns: a successful image map hands the pointer to the application
Finish(o, call, ok) ==
  LET res == MapResult(call, ok)
      r == Return(o, call, res[1], res[2])
  IN  IF ok /\ call.op = "MapImage"
        THEN [r EXCEPT !.app[call.sub] =
                [ptr |-> res[2], wr |-> call.mtype # "READ", last |-> @.last]]
      ELSE IF ok /\ call.op = "LockImage"
        THEN [r EXCEPT !.app[call.sub] =
                [ptr |-> res[2],
                 wr |-> "READONLY" \notin texture.lockFlags[call.sub],
                 last |-> @.last]]
        ELSE r

\* WaitForResource once the worker has drained the published chunks
WaitForResourceSynced ==
  /\ pc.at = "wait_cs"
  /\ csQueue = <<>>
  /\ Apply(
       IF ~isInUse(pc.res)
         THEN Finish(Keep, pc, TRUE)
       ELSE IF pc.nowait
         THEN Finish([Keep EXCEPT !.P =
                        FlushImplicit(Producer, FALSE, pendingSubmissions, now)],
                     pc, FALSE)
       ELSE [Keep EXCEPT !.P = FlushCsChunk(Flush(Producer, now)),
                         !.pc = [pc EXCEPT !.at = "wait_gpu", !.flushed = TRUE]])
  /\ UNCHANGED <<cfgVars, m_featureLevel, allocVars, m_iaState, query, devVars, now, workerVars>>

\* WaitForResource after its Flush: the worker has drained the chunks and
\* the resource is no longer in use
WaitForResourceIdle ==
  /\ pc.at = "wait_gpu"
  /\ csQueue = <<>>
  /\ ~isInUse(pc.res)
  /\ Apply(Finish(Keep, pc, TRUE))
  /\ UNCHANGED <<cfgVars, m_featureLevel, allocVars, m_iaState, query, devVars, now, workerVars>>

\* the contents behind a pointer
Deref(ptr) ==
  IF ptr.kind = "image" THEN mem.img[ptr.sub]
  ELSE mem.stg[ptr.buf.idx][ptr.slice]

\* the application writes v through the pointer of a write map
CpuWrite(Subresource, v) ==
  /\ pc = Idle
  /\ app[Subresource].ptr # NullPtr
  /\ app[Subresource].wr
  /\ LET ptr == app[Subresource].ptr
     IN  mem' = IF ptr.kind = "image"
                  THEN [mem EXCEPT !.img[ptr.sub] = v]
                  ELSE [mem EXCEPT !.stg[ptr.buf.idx][ptr.slice] = v]
  /\ app' = [app EXCEPT ![Subresource].last = v]
  /\ UNCHANGED <<cfgVars, m_featureLevel, allocVars, m_iaState, query, devVars, now, prodVars, buffer, texture, nextSlice, pc, ret,
                 workerVars>>

\* ------------------------------------------------------------ input layout
\* a null interface pointer
Null == "null"

\* caps::MaxStreams, scaled down
MaxStreams == 2
Streams == 0..(MaxStreams - 1)
\* the stream index of attributes no declaration element feeds
NullStreamIdx == MaxStreams
\* the width of the count in a stream frequency (0x7FFFFF), scaled down,
\* with the two flag bits above it
FreqBits == 2
D3DSTREAMSOURCE_INDEXEDDATA == 2^FreqBits
D3DSTREAMSOURCE_INSTANCEDATA == 2^(FreqBits + 1)
\* Setting & flag, for a flag that is one bit
HasBit(Setting, flag) == (Setting \div flag) % 2 = 1
\* Setting & 0x7FFFFF
FreqCount(Setting) == Setting % (2^FreqBits)

\* D3D9VertexDecl::GetElements
Elements(decl) ==
  IF decl = "Decl"
    THEN <<[Usage |-> "Position", UsageIndex |-> 0, Stream |-> 0,
            Type |-> "FLOAT3", Offset |-> 0],
           [Usage |-> "BlendWeight", UsageIndex |-> 0, Stream |-> 0,
            Type |-> "FLOAT2", Offset |-> 12],
           [Usage |-> "Color", UsageIndex |-> 0, Stream |-> 1,
            Type |-> "D3DCOLOR", Offset |-> 0]>>
    ELSE <<[Usage |-> "PositionT", UsageIndex |-> 0, Stream |-> 0,
            Type |-> "FLOAT4", Offset |-> 0],
           [Usage |-> "Texcoord", UsageIndex |-> 0, Stream |-> 1,
            Type |-> "FLOAT2", Offset |-> 0]>>

\* DecodeDecltype
DecodeDecltype(Type) ==
  CASE Type = "FLOAT2" -> "R32G32_SFLOAT"
    [] Type = "FLOAT3" -> "R32G32B32_SFLOAT"
    [] Type = "FLOAT4" -> "R32G32B32A32_SFLOAT"
    [] Type = "D3DCOLOR" -> "B8G8R8A8_UNORM"

\* the input signature BindInputLayout builds for the fixed function
ffIsgn ==
  <<<<"Position", 0>>>> \o [i \in 1..8 |-> <<"Texcoord", i - 1>>]
    \o <<<<"Color", 0>>, <<"Color", 1>>>>

\* D3D9CommonShader::GetIsgn of the vertex shader VS
GetIsgn(shader) == <<<<"Position", 0>>, <<"Texcoord", 0>>, <<"Color", 0>>>>

\* the semantic of a declaration element as the translator compares it
ElementSemantic(element) ==
  <<IF element.Usage = "PositionT" THEN "Position" ELSE element.Usage,
    element.UsageIndex>>

\* the first element from index k on whose semantic is sem, 0 if none
RECURSIVE FindElement(_, _, _)
FindElement(elements, k, sem) ==
  IF k > Len(elements) THEN 0
  ELSE IF ElementSemantic(elements[k]) = sem THEN k
  ELSE FindElement(elements, k + 1, sem)

\* the attribute of input-signature entry i (counted from 0)
Attribute(i, sem, elements) ==
  LET k == FindElement(elements, 1, sem)
  IN  IF k = 0
        THEN [location |-> i, binding |-> NullStreamIdx,
              format |-> "R32G32B32A32_SFLOAT", offset |-> 0]
        ELSE [location |-> i, binding |-> elements[k].Stream,
              format |-> DecodeDecltype(elements[k].Type),
              offset |-> elements[k].Offset]

\* the binding of stream index b
Binding(b, cStreamFreq) ==
  LET instanceData == cStreamFreq[b % MaxStreams]
  IN  IF HasBit(instanceData, D3DSTREAMSOURCE_INSTANCEDATA)
        THEN [binding |-> b, fetchRate |-> FreqCount(instanceData),
              inputRate |-> "INSTANCE"]
        ELSE [binding |-> b, fetchRate |-> 0, inputRate |-> "VERTEX"]

\* the translator that emits attributes for matched entries only
InputLayoutMatchedOnly(cVertexDecl, cVertexShader, cStreamFreq) ==
  IF cVertexDecl = Null THEN [attrs |-> {}, binds |-> {}]
  ELSE
    LET isgn == IF cVertexShader = Null THEN ffIsgn ELSE GetIsgn(cVertexShader)
        attrs == {a \in {Attribute(i - 1, isgn[i], Elements(cVertexDecl)) :
                           i \in 1..Len(isgn)} : a.binding # NullStreamIdx}
    IN  [attrs |-> attrs,
         binds |-> {Binding(a.binding, cStreamFreq) : a \in attrs}]

\* what the closure of BindInputLayout passes to setInputLayout: the
\* attributes and the bindings, for the captured declaration, shader and
\* stream frequencies
InputLayout(cVertexDecl, cVertexShader, cStreamFreq) ==
  IF cVertexDecl = Null THEN [attrs |-> {}, binds |-> {}]
  ELSE
    LET isgn == IF cVertexShader = Null THEN ffIsgn ELSE GetIsgn(cVertexShader)
        attrs == {Attribute(i - 1, isgn[i], Elements(cVertexDecl)) :
                    i \in 1..Len(isgn)}
    IN  [attrs |-> attrs,
         binds |-> {Binding(a.binding, cStreamFreq) : a \in attrs}]

\* the streams the closure records in cIaState.streamsUsed
StreamsUsed(layout) == {a.binding : a \in layout.attrs} \ {NullStreamIdx}

\* the closure of BindInputLayout that reads the device state when it runs
ExecInputLayoutByReference(iaState, cmd) ==
  IF cmd.kind # "setInputLayout" THEN iaState
  ELSE IF m_state.vertexDecl = Null THEN [iaState EXCEPT !.streamsUsed = {}]
  ELSE [streamsInstanced |-> m_instancedData,
        streamsUsed |->
          StreamsUsed(InputLayout(m_state.vertexDecl, cmd.cVertexShader,
                                  m_state.streamFreq))]

\* what executing cmd does to m_iaState: the closures of BindInputLayout
ExecInputLayout(iaState, cmd) ==
  IF cmd.kind # "setInputLayout" THEN iaState
  ELSE IF cmd.arg = Null THEN [iaState EXCEPT !.streamsUsed = {}]
  ELSE [streamsInstanced |-> cmd.cStreamsInstanced,
        streamsUsed |->
          StreamsUsed(InputLayout(cmd.arg, cmd.cVertexShader, cmd.cStreamFreq))]

\* D3D9DeviceEx::GenerateDrawInfo: the instance count of a draw
GenerateDrawInfo(iaState, InstanceCount) ==
  IF iaState.streamsInstanced \cap iaState.streamsUsed # {}
    THEN InstanceCount ELSE 1

\* D3D9DeviceEx::GetInstanceCount
GetInstanceCount(st) ==
  IF FreqCount(st.streamFreq[0]) > 1 THEN FreqCount(st.streamFreq[0]) ELSE 1

\* ------------------------------------------------------------ D3D11 device
\* the D3D_FEATURE_LEVEL values (9_1 .. 11_1), scaled down
FeatureLevelCount == 4
FeatureLevelValues == 1..FeatureLevelCount
\* D3D11Device::GetMaxFeatureLevel: the option d3d11.maxFeatureLevel
maxFeatureLevel == 3
\* the levels whose features DxvkAdapter::checkFeatureSupport accepts
AdapterFeatureLevels == FeatureLevelValues
\* requested level arrays are at most this long
MaxLevelArgs == 2

\* D3D11Device::CheckFeatureLevelSupport
CheckFeatureLevelSupport(featureLevel) ==
  IF featureLevel > maxFeatureLevel THEN FALSE
  ELSE featureLevel \in AdapterFeatureLevels

\* the loop over pFeatureLevels: the first supported index from flId on,
\* Len + 1 if there is none
RECURSIVE FirstSupported(_, _)
FirstSupported(pFeatureLevels, flId) ==
  IF flId > Len(pFeatureLevels) THEN flId
  ELSE IF CheckFeatureLevelSupport(pFeatureLevels[flId]) THEN flId
  ELSE FirstSupported(pFeatureLevels, flId + 1)

EmulatedInterfaces ==
  {"ID3D10Device", "ID3D10Device1", "ID3D11Device", "ID3D11Device1"}

\* the result of a device call that changes nothing
DeviceResult(featureLevel, hr) ==
  [featureLevel |-> featureLevel, hr |-> hr, chosen |-> 0, state |-> Null]

\* CreateDeviceContextState that takes the chosen level whatever the
\* current one is
CreateDeviceContextStateAssign(featureLevel, nullLevels, pFeatureLevels, EmulatedInterface, wantChosen, wantState) ==
  IF nullLevels \/ Len(pFeatureLevels) = 0
    THEN DeviceResult(featureLevel, "E_INVALIDARG")
  ELSE IF EmulatedInterface \notin EmulatedInterfaces
    THEN DeviceResult(featureLevel, "E_INVALIDARG")
  ELSE
    LET flId == FirstSupported(pFeatureLevels, 1)
    IN  IF flId = Len(pFeatureLevels) + 1
          THEN DeviceResult(featureLevel, "E_INVALIDARG")
          ELSE [featureLevel |-> pFeatureLevels[flId],
                hr |-> IF wantState THEN "S_OK" ELSE "S_FALSE",
                chosen |-> IF wantChosen THEN pFeatureLevels[flId] ELSE 0,
                state |-> IF wantState THEN "ContextState" ELSE Null]

\* D3D11Device::CreateDeviceContextState; nullLevels: pFeatureLevels is
\* null; wantChosen, wantState: the out-pointers are not null
CreateDeviceContextState(featureLevel, nullLevels, pFeatureLevels, EmulatedInterface, wantChosen, wantState) ==
  IF nullLevels \/ Len(pFeatureLevels) = 0
    THEN DeviceResult(featureLevel, "E_INVALIDARG")
  ELSE IF EmulatedInterface \notin EmulatedInterfaces
    THEN DeviceResult(featureLevel, "E_INVALIDARG")
  ELSE
    LET flId == FirstSupported(pFeatureLevels, 1)
    IN  IF flId = Len(pFeatureLevels) + 1
          THEN DeviceResult(featureLevel, "E_INVALIDARG")
          ELSE [featureLevel |-> IF pFeatureLevels[flId] > featureLevel
                                   THEN pFeatureLevels[flId] ELSE featureLevel,
                hr |-> IF wantState THEN "S_OK" ELSE "S_FALSE",
                chosen |-> IF wantChosen THEN pFeatureLevels[flId] ELSE 0,
                state |-> IF wantState THEN "ContextState" ELSE Null]

CreateDeviceContextStateCall(nullLevels, pFeatureLevels, EmulatedInterface, wantChosen, wantState) ==
  /\ api = "d3d11"
  /\ pc = Idle
  /\ \E r \in {CreateDeviceContextState(m_featureLevel, nullLevels,
                                         pFeatureLevels, EmulatedInterface,
                                         wantChosen, wantState)} :
       /\ m_featureLevel' = r.featureLevel
       /\ ret' = [op |-> "CreateDeviceContextState", hr |-> r.hr,
                  nullLevels |-> nullLevels, levels |-> pFeatureLevels,
                  before |-> m_featureLevel, chosen |-> r.chosen,
                  state |-> r.state]
  /\ UNCHANGED <<cfgVars, allocVars, m_iaState, query, devVars, now, prodVars,
                 mapVars, pc, workerVars, mem>>

\* D3D11Device::GetFeatureLevel
GetFeatureLevelCall ==
  /\ api = "d3d11"
  /\ pc = Idle
  /\ ret' = [op |-> "GetFeatureLevel", hr |-> "none", value |-> m_featureLevel]
  /\ UNCHANGED <<cfgVars, m_featureLevel, allocVars, m_iaState, query, devVars,
                 now, prodVars, mapVars, pc, workerVars, mem>>

\* the dimension GetCommonResourceDesc reports
ResourceDims == {"BUFFER", "TEXTURE2D"}

\* D3D11Device::CreateRenderTargetView. descOk: GetDescFromResource or
\* NormalizeDesc succeeded; compatible: CheckResourceViewCompatibility;
\* throws: the view's constructor throws; wantView: ppRTView is not null
CreateRenderTargetView(pResource, descOk, compatible, throws, wantView) ==
  IF pResource = Null THEN [hr |-> "E_INVALIDARG", view |-> Null]
  ELSE IF pResource = "BUFFER" THEN [hr |-> "S_OK", view |-> Null]
  ELSE IF ~descOk THEN [hr |-> "E_INVALIDARG", view |-> Null]
  ELSE IF ~compatible THEN [hr |-> "E_INVALIDARG", view |-> Null]
  ELSE IF ~wantView THEN [hr |-> "S_FALSE", view |-> Null]
  ELSE IF throws THEN [hr |-> "E_INVALIDARG", view |-> Null]
  ELSE [hr |-> "S_OK", view |-> "RenderTargetView"]

\* D3D11Device::CreateDepthStencilView, with the same inputs
CreateDepthStencilView(pResource, descOk, compatible, throws, wantView) ==
  IF pResource = Null THEN [hr |-> "E_INVALIDARG", view |-> Null]
  ELSE IF ~descOk THEN [hr |-> "E_INVALIDARG", view |-> Null]
  ELSE IF ~compatible THEN [hr |-> "E_INVALIDARG", view |-> Null]
  ELSE IF ~wantView THEN [hr |-> "S_FALSE", view |-> Null]
  ELSE IF throws THEN [hr |-> "E_INVALIDARG", view |-> Null]
  ELSE [hr |-> "S_OK", view |-> "DepthStencilView"]

\* a view-creation call and what it returned
CreateViewCall(op, pResource, wantView, r) ==
  /\ api = "d3d11"
  /\ pc = Idle
  /\ ret' = [op |-> op, hr |-> r.hr, dim |-> pResource,
             wantView |-> wantView, view |-> r.view]
  /\ UNCHANGED <<cfgVars, m_featureLevel, allocVars, m_iaState, query, devVars,
                 now, prodVars, mapVars, pc, workerVars, mem>>

CreateRenderTargetViewCall(pResource, descOk, compatible, throws, wantView) ==
  CreateViewCall("CreateRenderTargetView", pResource, wantView,
    CreateRenderTargetView(pResource, descOk, compatible, throws, wantView))

CreateDepthStencilViewCall(pResource, descOk, compatible, throws, wantView) ==
  CreateViewCall("CreateDepthStencilView", pResource, wantView,
    CreateDepthStencilView(pResource, descOk, compatible, throws, wantView))

\* ------------------------------------------------------------ worker, GPU, clock
EmptyCmdList == [use |-> {}, ops |-> <<>>]

IsCopy(cmd) ==
  cmd.kind \in {"copyBufferToImage", "copyPackedBufferToDepthStencilImage",
                "copyImageToBuffer"}

\* The worker executes the next command of the oldest published chunk:
\* a flush submits the open command list, an invalidate renames the buffer,
\* a copy is recorded with the slice that is current when it is recorded.
WorkerStep ==
  /\ csQueue # <<>>
  /\ LET chunk == Head(csQueue)
         cmd == Head(chunk)
         rest == Tail(chunk)
     IN  /\ executed' = Append(executed, cmd)
         /\ csQueue' = IF rest = <<>> THEN Tail(csQueue)
                                      ELSE <<rest>> \o Tail(csQueue)
         /\ IF cmd.kind = "flushCommandList"
              THEN /\ gpuQueue' = Append(gpuQueue, cmdList)
                   /\ cmdList' = EmptyCmdList
              ELSE /\ gpuQueue' = gpuQueue
                   /\ cmdList' =
                        [use |-> cmdList.use \cup Uses(cmd),
                         ops |-> IF IsCopy(cmd)
                                   THEN Append(cmdList.ops,
                                          [kind |-> cmd.kind, sub |-> cmd.arg,
                                           buf |-> cmd.res,
                                           slice |-> physSlice[cmd.res]])
                                   ELSE cmdList.ops]
         /\ physSlice' = IF cmd.kind = "invalidateBuffer"
                           THEN [physSlice EXCEPT ![cmd.res] = cmd.arg]
                           ELSE physSlice
         /\ m_iaState' = ExecInputLayout(m_iaState, cmd)
  /\ UNCHANGED <<cfgVars, m_featureLevel, allocVars, query, devVars, now, m_lastFlush, m_csIsBusy, m_csChunk, issued,
                 mapVars, pc, ret, mem>>

\* the effect of the recorded copies on the memory, in recording order;
\* the contents of a fix-up buffer are not tracked: the image gets 0
RECURSIVE ApplyOps(_, _)
ApplyOps(m, ops) ==
  IF ops = <<>> THEN m
  ELSE LET op == Head(ops)
           m2 == IF op.kind = "copyImageToBuffer"
                   THEN [m EXCEPT !.stg[op.sub][op.slice] = m.img[op.sub]]
                 ELSE IF op.buf.type = "staging"
                   THEN [m EXCEPT !.img[op.sub] = m.stg[op.sub][op.slice]]
                   ELSE [m EXCEPT !.img[op.sub] = 0]
       IN  ApplyOps(m2, Tail(ops))

\* The GPU completes the oldest submission: its copies have taken effect.
GpuComplete ==
  /\ gpuQueue # <<>>
  /\ gpuQueue' = Tail(gpuQueue)
  /\ mem' = ApplyOps(mem, Head(gpuQueue).ops)
  /\ UNCHANGED <<cfgVars, m_featureLevel, allocVars, m_iaState, query, devVars, now, prodVars, mapVars, pc, ret, cmdList,
                 physSlice, executed>>

\* d microseconds pass
Tick(d) ==
  /\ now + d <= MaxTicks * IncFlushIntervalUs
  /\ now' = now + d
  /\ UNCHANGED <<cfgVars, m_featureLevel, allocVars, m_iaState, query, devVars, prodVars, mapVars, pc, ret, workerVars, mem>>

\* D3D9InputAssemblyState before any input layout was bound
NoIaState == [streamsInstanced |-> {}, streamsUsed |-> {}]

\* ------------------------------------------------------------ memory allocator
\* the size of the one memory heap, scaled down
HeapSize == 256
\* at most this many chunks per memory type and live allocations
MaxChunks == 2
MaxLive == 2
MinChunkCount == 16
\* 64 MiB, scaled down with the heap
MaxChunkSize == 64
Min(a, b) == IF a < b THEN a ELSE b
\* the one element of a singleton set
Only(S) == CHOOSE x \in S : TRUE

\* DxvkMemoryAllocator::pickChunkSize
pickChunkSize(heapSize) == Min(heapSize \div MinChunkCount, MaxChunkSize)

\* the memory types of the adapter, both in the one heap
MemTypeIds == {1, 2}
PropertyFlags(i) ==
  IF i = 1 THEN {"DEVICE_LOCAL", "HOST_VISIBLE"} ELSE {"HOST_VISIBLE"}
optFlags == {"DEVICE_LOCAL", "HOST_CACHED"}

\* dxvk::align for a power-of-two alignment: what rounded up to a multiple
align(what, to) == ((what + to - 1) \div to) * to

\* a failed allocation: the DxvkMemory whose m_memory is VK_NULL_HANDLE
NullMemory ==
  [type |-> 0, chunk |-> 0, memory |-> 0, offset |-> 0, length |-> 0]

\* DxvkMemoryChunk::DxvkMemoryChunk: the whole chunk is one free slice
NewChunk(devMem) ==
  [memory |-> devMem,
   m_freeList |-> <<[offset |-> 0, length |-> devMem.memSize]>>]

RemoveAt(list, i) == SubSeq(list, 1, i - 1) \o SubSeq(list, i + 1, Len(list))

\* the loop without the test for an exact fit: the first largest slice
RECURSIVE BestSliceLargest(_, _, _, _)
BestSliceLargest(list, i, best, size) ==
  IF i > Len(list) THEN best
  ELSE IF list[i].length > list[best].length
    THEN BestSliceLargest(list, i + 1, i, size)
    ELSE BestSliceLargest(list, i + 1, best, size)

\* the loop of DxvkMemoryChunk::alloc from slice i on: the index of the
\* slice to allocate from, an exact fit first, else the largest so far
RECURSIVE BestSlice(_, _, _, _)
BestSlice(list, i, best, size) ==
  IF i > Len(list) THEN best
  ELSE IF list[i].length = size THEN i
  ELSE IF list[i].length > list[best].length
    THEN BestSlice(list, i + 1, i, size)
    ELSE BestSlice(list, i + 1, best, size)

\* what DxvkMemoryChunk::alloc leaves: the chunk and the memory it returns
ChunkResult(chunk, memory) == [chunk |-> chunk, memory |-> memory]

\* DxvkMemoryChunk::alloc that does not align the start of the allocation
ChunkAllocUnaligned(chunk, flags, size, alignment, priority) ==
  IF chunk.memory.memFlags # flags \/ chunk.memory.priority # priority
    THEN ChunkResult(chunk, NullMemory)
  ELSE IF Len(chunk.m_freeList) = 0
    THEN ChunkResult(chunk, NullMemory)
  ELSE
    LET bestSlice == BestSlice(chunk.m_freeList, 1, 1, size)
        sliceStart == chunk.m_freeList[bestSlice].offset
        sliceEnd == sliceStart + chunk.m_freeList[bestSlice].length
        allocStart == sliceStart
        allocEnd == allocStart + size
        erased == RemoveAt(chunk.m_freeList, bestSlice)
        left == IF allocStart # sliceStart
                  THEN Append(erased, [offset |-> sliceStart,
                                       length |-> allocStart - sliceStart])
                  ELSE erased
        right == IF allocEnd # sliceEnd
                   THEN Append(left, [offset |-> allocEnd,
                                      length |-> sliceEnd - allocEnd])
                   ELSE left
    IN  IF allocEnd > sliceEnd
          THEN ChunkResult(chunk, NullMemory)
          ELSE ChunkResult([chunk EXCEPT !.m_freeList = right],
                           [NullMemory EXCEPT !.memory = chunk.memory.memHandle,
                                              !.offset = allocStart,
                                              !.length = allocEnd - allocStart])

\* DxvkMemoryChunk::alloc that does not compare the end with the slice end
ChunkAllocUnchecked(chunk, flags, size, alignment, priority) ==
  IF chunk.memory.memFlags # flags \/ chunk.memory.priority # priority
    THEN ChunkResult(chunk, NullMemory)
  ELSE IF Len(chunk.m_freeList) = 0
    THEN ChunkResult(chunk, NullMemory)
  ELSE
    LET bestSlice == BestSlice(chunk.m_freeList, 1, 1, size)
        sliceStart == chunk.m_freeList[bestSlice].offset
        sliceEnd == sliceStart + chunk.m_freeList[bestSlice].length
        allocStart == align(sliceStart, alignment)
        allocEnd == align(allocStart + size, alignment)
        erased == RemoveAt(chunk.m_freeList, bestSlice)
        left == IF allocStart # sliceStart
                  THEN Append(erased, [offset |-> sliceStart,
                                       length |-> allocStart - sliceStart])
                  ELSE erased
        right == IF allocEnd < sliceEnd
                   THEN Append(left, [offset |-> allocEnd,
                                      length |-> sliceEnd - allocEnd])
                   ELSE left
    IN  ChunkResult([chunk EXCEPT !.m_freeList = right],
                    [NullMemory EXCEPT !.memory = chunk.memory.memHandle,
                                       !.offset = allocStart,
                                       !.length = allocEnd - allocStart])

\* DxvkMemoryChunk::alloc
ChunkAlloc(chunk, flags, size, alignment, priority) ==
  IF chunk.memory.memFlags # flags \/ chunk.memory.priority # priority
    THEN ChunkResult(chunk, NullMemory)
  ELSE IF Len(chunk.m_freeList) = 0
    THEN ChunkResult(chunk, NullMemory)
  ELSE
    LET bestSlice == BestSlice(chunk.m_freeList, 1, 1, size)
        sliceStart == chunk.m_freeList[bestSlice].offset
        sliceEnd == sliceStart + chunk.m_freeList[bestSlice].length
        allocStart == align(sliceStart, alignment)
        allocEnd == align(allocStart + size, alignment)
        erased == RemoveAt(chunk.m_freeList, bestSlice)
        left == IF allocStart # sliceStart
                  THEN Append(erased, [offset |-> sliceStart,
                                       length |-> allocStart - sliceStart])
                  ELSE erased
        right == IF allocEnd # sliceEnd
                   THEN Append(left, [offset |-> allocEnd,
                                      length |-> sliceEnd - allocEnd])
                   ELSE left
    IN  IF allocEnd > sliceEnd
          THEN ChunkResult(chunk, NullMemory)
          ELSE ChunkResult([chunk EXCEPT !.m_freeList = right],
                           [NullMemory EXCEPT !.memory = chunk.memory.memHandle,
                                              !.offset = allocStart,
                                              !.length = allocEnd - allocStart])

\* the loop of DxvkMemoryChunk::free from entry curr on, then the push_back
RECURSIVE FreeLoop(_, _, _, _)
FreeLoop(list, curr, offset, length) ==
  IF curr > Len(list) THEN Append(list, [offset |-> offset, length |-> length])
  ELSE IF list[curr].offset = offset + length
    THEN FreeLoop(RemoveAt(list, curr), curr, offset, length + list[curr].length)
  ELSE IF list[curr].offset + list[curr].length = offset
    THEN FreeLoop(RemoveAt(list, curr), curr, offset - list[curr].length,
                  length + list[curr].length)
    ELSE FreeLoop(list, curr + 1, offset, length)

\* DxvkMemoryChunk::free that merges with no neighbour
ChunkFreeNoMerge(chunk, offset, length) ==
  [chunk EXCEPT !.m_freeList = Append(@, [offset |-> offset, length |-> length])]

\* DxvkMemoryChunk::free that gives back one byte less than the allocation
ChunkFreeShort(chunk, offset, length) ==
  [chunk EXCEPT !.m_freeList = FreeLoop(@, 1, offset, length - 1)]

\* DxvkMemoryChunk::free
ChunkFree(chunk, offset, length) ==
  [chunk EXCEPT !.m_freeList = FreeLoop(@, 1, offset, length)]

\* The allocator-side fields an allocation reads and writes; avail is what
\* the driver can still hand out, handles the VkDeviceMemory handles in use.
Allocator(avail) ==
  [chunks |-> m_chunks, stats |-> m_stats, avail |-> avail,
   handles |-> {m.memory : m \in m_live}
                 \cup UNION {{m_chunks[t][i].memory.memHandle :
                                i \in 1..Len(m_chunks[t])} : t \in MemTypeIds}]

chunkSize == pickChunkSize(HeapSize)

\* what an allocation attempt leaves: the allocator and the memory
AllocResult(A, memory) == [A |-> A, memory |-> memory]

NullDeviceMemory == [memHandle |-> 0, memSize |-> 0, memFlags |-> {}, priority |-> 0]

\* DxvkMemoryAllocator::tryAllocDeviceMemory: vkAllocateMemory succeeds when
\* the driver has size bytes left
tryAllocDeviceMemory(A, flags, size, priority) ==
  IF size > A.avail
    THEN [A |-> A, devMem |-> NullDeviceMemory]
    ELSE LET h == CHOOSE h \in 1..(Cardinality(A.handles) + 1) : h \notin A.handles
         IN  [A |-> [A EXCEPT !.stats.memoryAllocated = @ + size,
                              !.avail = @ - size,
                              !.handles = @ \cup {h}],
              devMem |-> [memHandle |-> h, memSize |-> size, memFlags |-> flags,
                          priority |-> priority]]

\* the loop over type->chunks from chunk i on
RECURSIVE AllocFromChunks(_, _, _, _, _, _, _)
AllocFromChunks(A, type, i, flags, size, alignment, priority) ==
  IF i > Len(A.chunks[type]) THEN AllocResult(A, NullMemory)
  ELSE Only({
         IF r.memory # NullMemory
           THEN AllocResult([A EXCEPT !.chunks[type][i] = r.chunk],
                            [r.memory EXCEPT !.type = type, !.chunk = i])
           ELSE AllocFromChunks(A, type, i + 1, flags, size, alignment, priority) :
         r \in {ChunkAlloc(A.chunks[type][i], flags, size, alignment, priority)}})

Used(r) ==
  IF r.memory # NullMemory
    THEN [r EXCEPT !.A.stats.memoryUsed = @ + r.memory.length]
    ELSE r

\* the DxvkMemory made from a dedicated device memory d, if d was allocated
DedicatedMemory(d, type, size) ==
  IF d.devMem.memHandle # 0
    THEN Used(AllocResult(d.A,
           [NullMemory EXCEPT !.type = type, !.memory = d.devMem.memHandle,
                              !.length = size]))
    ELSE AllocResult(d.A, NullMemory)

\* the end of tryAllocFromType: a new chunk made from the device memory d,
\* the allocation from it, and the chunk appended to the type's chunks
AllocFromNewChunk(d, type, flags, size, alignment, priority) ==
  IF d.devMem.memHandle = 0
    THEN AllocResult(d.A, NullMemory)
    ELSE Only({
           Used(AllocResult(
             [d.A EXCEPT !.chunks[type] = Append(@, r.chunk)],
             IF r.memory # NullMemory
               THEN [r.memory EXCEPT !.type = type,
                                     !.chunk = Len(d.A.chunks[type]) + 1]
               ELSE NullMemory)) :
           r \in {ChunkAlloc(NewChunk(d.devMem), flags, size, alignment,
                             priority)}})

\* tryAllocFromType that sub-allocates a request of exactly a quarter chunk
tryAllocFromTypeExceeds(A, type, flags, size, alignment, priority0, dedAllocInfo) ==
  LET isDeviceLocal == "DEVICE_LOCAL" \in flags
      priority == IF isDeviceLocal THEN priority0 ELSE 0
  IN  IF size > chunkSize \div 4 \/ dedAllocInfo
        THEN DedicatedMemory(tryAllocDeviceMemory(A, flags, size, priority),
                             type, size)
        ELSE Only({
               IF c.memory # NullMemory THEN Used(c)
               ELSE AllocFromNewChunk(
                      tryAllocDeviceMemory(A, flags, chunkSize, priority),
                      type, flags, size, alignment, priority) :
               c \in {AllocFromChunks(A, type, 1, flags, size, alignment,
                                      priority)}})

\* DxvkMemoryAllocator::tryAllocFromType; dedAllocInfo is whether the
\* pointer is non-null
tryAllocFromType(A, type, flags, size, alignment, priority0, dedAllocInfo) ==
  LET isDeviceLocal == "DEVICE_LOCAL" \in flags
      priority == IF isDeviceLocal THEN priority0 ELSE 0
  IN  IF size >= chunkSize \div 4 \/ dedAllocInfo
        THEN DedicatedMemory(tryAllocDeviceMemory(A, flags, size, priority),
                             type, size)
        ELSE Only({
               IF c.memory # NullMemory THEN Used(c)
               ELSE AllocFromNewChunk(
                      tryAllocDeviceMemory(A, flags, chunkSize, priority),
                      type, flags, size, alignment, priority) :
               c \in {AllocFromChunks(A, type, 1, flags, size, alignment,
                                      priority)}})

\* DxvkMemoryAllocator::tryAlloc from memory type i on; every type is in
\* req->memoryTypeBits
RECURSIVE tryAlloc(_, _, _, _, _, _)
tryAlloc(A, i, req, dedAllocInfo, flags, priority) ==
  IF i \notin MemTypeIds THEN AllocResult(A, NullMemory)
  ELSE IF flags \subseteq PropertyFlags(i)
    THEN Only({
           IF r.memory # NullMemory THEN r
           ELSE tryAlloc(r.A, i + 1, req, dedAllocInfo, flags, priority) :
           r \in {tryAllocFromType(A, i, flags, req.size, req.alignment,
                                   priority, dedAllocInfo)}})
    ELSE tryAlloc(A, i + 1, req, dedAllocInfo, flags, priority)

\* DxvkMemoryAllocator::alloc; a NullMemory result stands for the DxvkError
\* it throws
alloc(A, req, dedAllocReq, flags, priority) ==
  Only({
    LET retry == r1.memory = NullMemory
                   /\ dedAllocReq.prefersDedicatedAllocation
                   /\ ~dedAllocReq.requiresDedicatedAllocation
        dedAllocPtr == dedAllocReq.prefersDedicatedAllocation /\ ~retry
    IN  Only({
          IF r2.memory = NullMemory /\ flags \cap optFlags # {}
            THEN tryAlloc(r2.A, 1, req, dedAllocPtr, flags \ optFlags, priority)
            ELSE r2 :
          r2 \in {IF retry THEN tryAlloc(r1.A, 1, req, FALSE, flags, priority)
                            ELSE r1}}) :
    r1 \in {tryAlloc(A, 1, req, dedAllocReq.prefersDedicatedAllocation, flags,
                     priority)}})

\* DxvkMemoryAllocator::free with freeChunkMemory and freeDeviceMemory
free(A, memory) ==
  LET A1 == [A EXCEPT !.stats.memoryUsed = @ - memory.length]
  IN  IF memory.chunk # 0
        THEN [A1 EXCEPT !.chunks[memory.type][memory.chunk] =
                ChunkFree(@, memory.offset, memory.length)]
        ELSE [A1 EXCEPT !.stats.memoryAllocated = @ - memory.length]

CommitAllocator(A) ==
  /\ m_chunks' = A.chunks
  /\ m_stats' = A.stats

\* the requests: VkMemoryRequirements, the dedicated-allocation
\* requirements, the property flags and the priority
Sizes == {chunkSize \div 4 - 1, chunkSize \div 4, chunkSize \div 4 + 1}
Alignments == {1, 4}
Requests ==
  [size : Sizes, alignment : Alignments,
   prefersDedicatedAllocation : BOOLEAN, requiresDedicatedAllocation : BOOLEAN,
   flags : {{"DEVICE_LOCAL"}, {"HOST_VISIBLE"}}, priority : {1}]

\* DxvkMemoryAllocator::alloc called for a new resource while the driver
\* has avail bytes left
AllocCall(q, avail) ==
  /\ q.requiresDedicatedAllocation => q.prefersDedicatedAllocation
  /\ Cardinality(m_live) < MaxLive
  /\ \E r \in {alloc(Allocator(avail),
                      [size |-> q.size, alignment |-> q.alignment],
                      q, q.flags, q.priority)} :
         /\ \A t \in MemTypeIds : Len(r.A.chunks[t]) <= MaxChunks
         /\ CommitAllocator(r.A)
         /\ m_live' = IF r.memory # NullMemory THEN m_live \cup {r.memory}
                                               ELSE m_live
         /\ ret' = [op |-> "alloc", req |-> q, avail |-> avail,
                    memory |-> r.memory]
  /\ UNCHANGED <<cfgVars, m_featureLevel, m_iaState, query, devVars, now, prodVars, mapVars, pc,
                 workerVars, mem>>

\* ~DxvkMemory of a live allocation
FreeCall(memory) ==
  /\ memory \in m_live
  /\ CommitAllocator(free(Allocator(0), memory))
  /\ m_live' = m_live \ {memory}
  /\ ret' = [op |-> "free", memory |-> memory,
             merged |-> IF memory.chunk = 0 THEN 0
                        ELSE Len(m_chunks[memory.type][memory.chunk].m_freeList)
                               + 1 - Len(m_chunks'[memory.type][memory.chunk].m_freeList)]
  /\ UNCHANGED <<cfgVars, m_featureLevel, m_iaState, query, devVars, now, prodVars, mapVars, pc,
                 workerVars, mem>>

\* The memory a new resource of size bytes asks the allocator for, in
\* device-local memory and without a dedicated-allocation hint.
ResourceMemory(A, size) ==
  alloc(A, [size |-> size, alignment |-> 4],
        [prefersDedicatedAllocation |-> FALSE,
         requiresDedicatedAllocation |-> FALSE], {"DEVICE_LOCAL"}, 1)

\* A resource-creation call: the resource's constructor allocates its
\* memory; the DxvkError the allocator throws is caught by the call, which
\* returns onError.
CreateCall(op, onSuccess, onError, size, avail) ==
  /\ Cardinality(m_live) < MaxLive
  /\ \E r \in {ResourceMemory(Allocator(avail), size)} :
       /\ \A t \in MemTypeIds : Len(r.A.chunks[t]) <= MaxChunks
       /\ CommitAllocator(r.A)
       /\ m_live' = IF r.memory # NullMemory THEN m_live \cup {r.memory}
                                             ELSE m_live
       /\ ret' = [op |-> op,
                  hr |-> IF r.memory # NullMemory THEN onSuccess ELSE onError,
                  memory |-> r.memory]
  /\ UNCHANGED <<cfgVars, m_featureLevel, m_iaState, query, devVars, now, prodVars, mapVars, pc,
                 workerVars, mem>>

\* D3D9DeviceEx::CreateTexture with a valid description and out-pointer
CreateTextureCall(size, avail) ==
  /\ api = "d3d9"
  /\ CreateCall("CreateTexture", "D3D_OK", "D3DERR_OUTOFVIDEOMEMORY", size, avail)

\* D3D9DeviceEx::CreateVertexBuffer with a non-null out-pointer
CreateVertexBufferCall(Length, avail) ==
  /\ api = "d3d9"
  /\ CreateCall("CreateVertexBuffer", "D3D_OK", "D3DERR_INVALIDCALL", Length, avail)

\* D3D9DeviceEx::CreateIndexBuffer with a non-null out-pointer
CreateIndexBufferCall(Length, avail) ==
  /\ api = "d3d9"
  /\ CreateCall("CreateIndexBuffer", "D3D_OK", "D3DERR_INVALIDCALL", Length, avail)

\* D3D11Device::CreateBuffer with a valid description and out-pointer
CreateBufferCall(ByteWidth, avail) ==
  /\ api = "d3d11"
  /\ CreateCall("CreateBuffer", "S_OK", "E_INVALIDARG", ByteWidth, avail)

\* ------------------------------------------------------------ D3D9 device state

\* render-target slots of the model (caps::MaxSimultaneousRenderTargets)
MaxSimultaneousRenderTargets == 2
RTIndices == 0..(MaxSimultaneousRenderTargets - 1)
\* bits of a DWORD the model keeps
MaskBits == 2
\* 0xffffffff at the model's width
AllOnes == 2^MaskBits - 1

D3DMULTISAMPLE_NONMASKABLE == 1
\* the surfaces of the device; TexA and TexB are textures that can also be
\* rendered to, TexMS is a 4-sample surface, TexNM a non-maskable one
Surfaces == {"BackBuffer", "TexA", "TexB", "TexMS", "TexNM"}
\* D3D9_COMMON_TEXTURE_DESC::MultiSample
MultiSample(s) == IF s = "TexMS" THEN 4 ELSE IF s = "TexNM" THEN 1 ELSE 0
Samplers == {0}
VertexDecls == {"Decl", "DeclT"}
\* D3D9VertexDecl::TestFlag(HasPositionT)
HasPositionT(decl) == decl = "DeclT"
\* D3D9CommonShader::IsRTUsed, IsSamplerUsed: PSTex samples sampler 0
IsRTUsed(shader, j) == j = 0 \/ shader = "PSMrt"
IsSamplerUsed(shader, i) == shader \in {"PSTex", "PSMrt"} /\ i = 0

D3DRS_ZENABLE == 7
D3DRS_POINTSIZE == 154
D3DRS_MULTISAMPLEMASK == 162
D3DRS_COLORWRITEENABLE == 168
D3DRS_COLORWRITEENABLE1 == 190
D3DRS_BLENDFACTOR == 193
D3DRS_SRGBWRITEENABLE == 194
D3DRS_BLENDOPALPHA == 209
\* the render states the model stores
RenderStates ==
  {0, D3DRS_POINTSIZE, D3DRS_MULTISAMPLEMASK, D3DRS_COLORWRITEENABLE,
   D3DRS_COLORWRITEENABLE1, D3DRS_BLENDFACTOR, D3DRS_SRGBWRITEENABLE, 255}
MAKEFOURCC(a, b, c, d) == a + b * 256 + c * 65536 + d * 16777216
\* MAKEFOURCC('A', '2', 'M', '1') and MAKEFOURCC('A', '2', 'M', '0')
AlphaToCoverageEnable == MAKEFOURCC(65, 50, 77, 49)
AlphaToCoverageDisable == MAKEFOURCC(65, 50, 77, 48)

D3DSAMP_MAGFILTER == 5
D3DSAMP_SRGBTEXTURE == 11
D3DSAMP_ELEMENTINDEX == 12
\* the sampler states the model stores
SamplerStateTypes == {D3DSAMP_MAGFILTER, D3DSAMP_SRGBTEXTURE, D3DSAMP_ELEMENTINDEX}
\* the sampler states ResetEx assigns (D3DTEXF_POINT is 1)
InitSamplerState ==
  [t \in SamplerStateTypes |-> IF t = D3DSAMP_MAGFILTER THEN 1 ELSE 0]

NoRecorder == [recording |-> FALSE, captured |-> <<>>]

\* The state vector ResetState and ResetEx leave behind.
InitState ==
  [renderTargets |-> [i \in RTIndices |-> IF i = 0 THEN "BackBuffer" ELSE Null],
   depthStencil |-> Null,
   viewport |-> "BackBuffer",
   renderStates |->
     [k \in RenderStates |->
        CASE k = D3DRS_POINTSIZE -> 1
          [] k = D3DRS_MULTISAMPLEMASK -> AllOnes
          [] k = D3DRS_COLORWRITEENABLE -> AllOnes
          [] k = D3DRS_COLORWRITEENABLE1 -> AllOnes
          [] k = D3DRS_BLENDFACTOR -> AllOnes
          [] OTHER -> 0],
   textures |-> [i \in Samplers |-> Null],
   samplerStates |-> [i \in Samplers |-> InitSamplerState],
   vertexShader |-> Null,
   pixelShader |-> Null,
   vertexDecl |-> Null,
   streamFreq |-> [i \in Streams |-> 1],
   amdATOC |-> FALSE]

\* the flags set when ResetEx returns
InitFlags == {"DirtyFramebuffer", "DirtyFFVertexShader", "DirtyFFPixelShader"}

\* The device-side fields a D3D9 call reads and writes.
Device ==
  [P |-> Producer, state |-> m_state, flags |-> m_flags,
   recorder |-> m_recorder, hazardous |-> hazardous, hr |-> "D3D_OK",
   value |-> 0, instancedData |-> m_instancedData,
   dirtySamplerStates |-> m_dirtySamplerStates]

CommitDevice(D) ==
  /\ Commit(D.P)
  /\ m_state' = D.state
  /\ m_flags' = D.flags
  /\ m_recorder' = D.recorder
  /\ hazardous' = D.hazardous
  /\ m_instancedData' = D.instancedData
  /\ m_dirtySamplerStates' = D.dirtySamplerStates

DevEmit(D, kind, arg) == [D EXCEPT !.P = EmitCs(D.P, Cmd(kind, NoRes, arg))]
SetFlag(D, f) == [D EXCEPT !.flags = @ \cup {f}]
ClrFlag(D, f) == [D EXCEPT !.flags = @ \ {f}]

\* ShouldRecord that never reroutes
ShouldRecordNever(D) == FALSE

\* D3D9DeviceEx::ShouldRecord (a block being recorded is never applying)
ShouldRecord(D) == D.recorder.recording

\* D3D9StateBlock::Set*: the mutation is captured in the block; n holds a
\* number, s a name
Capture(D, what, idx, n, s) ==
  [D EXCEPT !.recorder.captured = (<<what, idx>> :> <<n, s>>) @@ @]

\* D3D9CommonTexture::GetRenderTargetLayout
RenderTargetLayout(s, hz) ==
  IF s \in hz THEN "GENERAL" ELSE "COLOR_ATTACHMENT_OPTIMAL"

\* the attachments BindFramebuffer computes
Attachments(st, hz) ==
  [color |-> [i \in RTIndices |->
                IF st.renderTargets[i] # Null
                  THEN [view |-> st.renderTargets[i],
                        srgb |-> st.renderStates[D3DRS_SRGBWRITEENABLE] # 0,
                        layout |-> RenderTargetLayout(st.renderTargets[i], hz)]
                  ELSE [view |-> Null, srgb |-> FALSE, layout |-> "UNDEFINED"]],
   depth |-> st.depthStencil]

BindFramebuffer(D) ==
  DevEmit(ClrFlag(D, "DirtyFramebuffer"), "bindRenderTargets",
          Attachments(D.state, D.hazardous))

BindViewportAndScissor(D) ==
  DevEmit(ClrFlag(D, "DirtyViewportScissor"), "setViewports", D.state.viewport)

BlendMode(st) ==
  [writeMask |-> [i \in RTIndices |->
     st.renderStates[IF i = 0 THEN D3DRS_COLORWRITEENABLE
                              ELSE D3DRS_COLORWRITEENABLE1]]]

BindBlendState(D) ==
  DevEmit(ClrFlag(D, "DirtyBlendState"), "setBlendMode", BlendMode(D.state))

BindBlendFactor(D) ==
  DevEmit(D, "setBlendConstants", D.state.renderStates[D3DRS_BLENDFACTOR])

\* the multisample state a device with these flags has to bind
MultisampleState(st, fl) ==
  [sampleMask |-> IF "ValidSampleMask" \in fl
                    THEN st.renderStates[D3DRS_MULTISAMPLEMASK]
                    ELSE AllOnes,
   enableAlphaToCoverage |-> st.amdATOC]

\* BindMultiSampleState that takes the mask from the render state always
BindMultiSampleStateAnyMask(D) ==
  DevEmit(ClrFlag(D, "DirtyMultiSampleState"), "setMultisampleState",
          [sampleMask |-> D.state.renderStates[D3DRS_MULTISAMPLEMASK],
           enableAlphaToCoverage |-> D.state.amdATOC])

BindMultiSampleState(D) ==
  DevEmit(ClrFlag(D, "DirtyMultiSampleState"), "setMultisampleState",
          MultisampleState(D.state, D.flags))

UseProgrammableVS(st) ==
  /\ st.vertexShader # Null
  /\ st.vertexDecl # Null
  /\ ~HasPositionT(st.vertexDecl)

UseProgrammablePS(st) == st.pixelShader # Null

BindShader(D, ShaderStage, shader) ==
  DevEmit(D, "bindShader", [stage |-> ShaderStage, shader |-> shader])

BindInputLayout(D) ==
  [ClrFlag(D, "DirtyInputLayout") EXCEPT
     !.P = EmitCs(D.P,
             IF D.state.vertexDecl = Null
               THEN Cmd("setInputLayout", NoRes, Null)
               ELSE [cVertexShader |-> IF UseProgrammableVS(D.state)
                                        THEN D.state.vertexShader ELSE Null,
                     cStreamsInstanced |-> D.instancedData,
                     cStreamFreq |-> D.state.streamFreq]
                      @@ Cmd("setInputLayout", NoRes, D.state.vertexDecl))]

\* D3D9DeviceEx::BindSampler: the sampler is created from the sampler's state
BindSampler(D, Sampler) ==
  DevEmit(D, "bindResourceSampler",
          [slot |-> Sampler, key |-> D.state.samplerStates[Sampler][D3DSAMP_MAGFILTER]])

\* D3D9DeviceEx::UndirtySamplers from sampler i on
RECURSIVE BindDirtySamplers(_, _)
BindDirtySamplers(D, i) ==
  IF i \notin Samplers THEN D
  ELSE BindDirtySamplers(IF i \in D.dirtySamplerStates THEN BindSampler(D, i)
                                                        ELSE D, i + 1)

\* UndirtySamplers that binds the samplers and leaves their bits set
UndirtySamplersKeepBits(D) == BindDirtySamplers(D, 0)

UndirtySamplers(D) ==
  [BindDirtySamplers(D, 0) EXCEPT !.dirtySamplerStates = {}]

BindTexture(D, StateSampler) ==
  DevEmit(D, "bindResourceView",
          [slot |-> StateSampler, view |-> D.state.textures[StateSampler]])

\* the fixed-function constant buffer of a stage gets a fresh slice
InvalidateFixedFunction(D, ShaderStage) == DevEmit(D, "invalidateBuffer", ShaderStage)

UpdateFixedFunctionVS(D) ==
  LET hasPositionT == D.state.vertexDecl # Null /\ HasPositionT(D.state.vertexDecl)
      D1 == IF "DirtyFFVertexShader" \in D.flags
              THEN BindShader(ClrFlag(D, "DirtyFFVertexShader"), "vertex", "FFVS")
              ELSE D
      D2 == IF hasPositionT /\ "DirtyFFViewport" \in D1.flags
              THEN SetFlag(D1, "DirtyFFVertexData")
              ELSE D1
  IN  IF "DirtyFFVertexData" \in D2.flags
        THEN InvalidateFixedFunction(
               ClrFlag(ClrFlag(D2, "DirtyFFVertexData"), "DirtyFFViewport"),
               "vertex")
        ELSE D2

UpdateFixedFunctionPS(D) ==
  LET D1 == IF "DirtyFFPixelShader" \in D.flags
              THEN BindShader(ClrFlag(D, "DirtyFFPixelShader"), "pixel", "FFPS")
              ELSE D
  IN  IF "DirtyFFPixelData" \in D1.flags
        THEN InvalidateFixedFunction(ClrFlag(D1, "DirtyFFPixelData"), "pixel")
        ELSE D1

TransitionImage(D, tex) == DevEmit(D, "changeImageLayout", tex)

\* the render targets CheckForHazards finds sampled by the pixel shader
HazardTargets(st) ==
  IF st.pixelShader = Null THEN {}
  ELSE {j \in RTIndices :
          /\ st.renderTargets[j] # Null
          /\ st.renderStates[IF j = 0 THEN D3DRS_COLORWRITEENABLE
                                      ELSE D3DRS_COLORWRITEENABLE1] # 0
          /\ IsRTUsed(st.pixelShader, j)
          /\ \E i \in Samplers :
               /\ st.textures[i] # Null
               /\ IsSamplerUsed(st.pixelShader, i)
               /\ st.textures[i] = st.renderTargets[j]}

\* a hazard on tex that transitions the image without looking at its flag
HazardFoundEveryDraw(D, tex) ==
  SetFlag(TransitionImage(D, tex), "DirtyFramebuffer")

\* CheckForHazards, once tex == rt: MarkHazardous sets the texture's flag
\* and returns whether it was set before
HazardFound(D, tex) ==
  IF tex \in D.hazardous
    THEN D
    ELSE SetFlag(TransitionImage([D EXCEPT !.hazardous = @ \cup {tex}], tex),
                 "DirtyFramebuffer")

\* CheckForHazards from render target j on
RECURSIVE CheckForHazards(_, _)
CheckForHazards(D, j) ==
  IF j >= MaxSimultaneousRenderTargets THEN D
  ELSE IF j \in HazardTargets(D.state)
    THEN CheckForHazards(HazardFound(D, D.state.renderTargets[j]), j + 1)
    ELSE CheckForHazards(D, j + 1)

\* one step of PrepareDraw: Bind runs if the flag is set
IfDirty(D, f, Bound) == IF f \in D.flags THEN Bound ELSE D

\* PrepareDraw that binds the framebuffer before it scans for hazards
PrepareDrawBindFirst(D0, hasHazards) ==
  LET D1 == IfDirty(D0, "DirtyFramebuffer", BindFramebuffer(D0))
      D2 == IF hasHazards THEN CheckForHazards(D1, 0) ELSE D1
      D3 == UndirtySamplers(
              IfDirty(D2, "DirtyViewportScissor", BindViewportAndScissor(D2)))
      D4 == IfDirty(D3, "DirtyBlendState", BindBlendState(D3))
      D5 == IfDirty(D4, "DirtyMultiSampleState", BindMultiSampleState(D4))
      D6 == IfDirty(D5, "DirtyInputLayout", BindInputLayout(D5))
      D7 == IF UseProgrammableVS(D6.state) THEN D6 ELSE UpdateFixedFunctionVS(D6)
  IN  IF UseProgrammablePS(D7.state) THEN D7 ELSE UpdateFixedFunctionPS(D7)

PrepareDraw(D0, hasHazards) ==
  LET D1 == IF hasHazards THEN CheckForHazards(D0, 0) ELSE D0
      D2 == IfDirty(D1, "DirtyFramebuffer", BindFramebuffer(D1))
      D3 == UndirtySamplers(
              IfDirty(D2, "DirtyViewportScissor", BindViewportAndScissor(D2)))
      D4 == IfDirty(D3, "DirtyBlendState", BindBlendState(D3))
      D5 == IfDirty(D4, "DirtyMultiSampleState", BindMultiSampleState(D4))
      D6 == IfDirty(D5, "DirtyInputLayout", BindInputLayout(D5))
      D7 == IF UseProgrammableVS(D6.state) THEN D6 ELSE UpdateFixedFunctionVS(D6)
  IN  IF UseProgrammablePS(D7.state) THEN D7 ELSE UpdateFixedFunctionPS(D7)

Fail(D, hr) == [D EXCEPT !.hr = hr]

\* SetRenderTarget that raises the strong hint for every index
SetRenderTargetAlwaysStrong(D, RenderTargetIndex, rt, pending, t) ==
  IF RenderTargetIndex >= MaxSimultaneousRenderTargets
       \/ (rt = Null /\ RenderTargetIndex = 0)
    THEN Fail(D, "D3DERR_INVALIDCALL")
  ELSE IF D.state.renderTargets[RenderTargetIndex] = rt THEN D
  ELSE
    LET D1 == [D EXCEPT !.P = FlushImplicit(D.P, TRUE, pending, t)]
        D2 == [SetFlag(D1, "DirtyFramebuffer")
                 EXCEPT !.state.renderTargets[RenderTargetIndex] = rt]
    IN  IF RenderTargetIndex = 0
          THEN SetFlag(SetFlag([D2 EXCEPT !.state.viewport = rt],
                               "DirtyViewportScissor"), "DirtyFFViewport")
          ELSE D2

SetRenderTarget(D, RenderTargetIndex, rt, pending, t) ==
  IF RenderTargetIndex >= MaxSimultaneousRenderTargets
       \/ (rt = Null /\ RenderTargetIndex = 0)
    THEN Fail(D, "D3DERR_INVALIDCALL")
  ELSE IF D.state.renderTargets[RenderTargetIndex] = rt THEN D
  ELSE
    LET D1 == [D EXCEPT !.P = FlushImplicit(D.P, RenderTargetIndex = 0, pending, t)]
        D2 == [SetFlag(D1, "DirtyFramebuffer")
                 EXCEPT !.state.renderTargets[RenderTargetIndex] = rt]
        validSampleMask == MultiSample(rt) > D3DMULTISAMPLE_NONMASKABLE
        D3 == IF validSampleMask # ("ValidSampleMask" \in D2.flags)
                THEN [D2 EXCEPT !.flags =
                        (@ \ {"ValidSampleMask"})
                          \cup (IF validSampleMask THEN {"ValidSampleMask"} ELSE {})
                          \cup {"DirtyMultiSampleState"}]
                ELSE D2
    IN  IF RenderTargetIndex = 0
          THEN SetFlag(SetFlag([D3 EXCEPT !.state.viewport = rt],
                               "DirtyViewportScissor"), "DirtyFFViewport")
          ELSE D2

SetDepthStencilSurface(D, ds, pending, t) ==
  IF D.state.depthStencil = ds THEN D
  ELSE [SetFlag([D EXCEPT !.P = FlushImplicit(D.P, FALSE, pending, t)],
                "DirtyFramebuffer")
          EXCEPT !.state.depthStencil = ds]

\* D3D9DeviceEx::GetRenderTarget; ppRenderTarget: the out-pointer is not
\* null; oob: what the read of renderTargets[MaxSimultaneousRenderTargets],
\* one past the end of the array, yields
GetRenderTarget(D, RenderTargetIndex, ppRenderTarget, oob) ==
  IF ~ppRenderTarget \/ RenderTargetIndex > MaxSimultaneousRenderTargets
    THEN Fail(D, "D3DERR_INVALIDCALL")
  ELSE
    LET slot == IF RenderTargetIndex \in RTIndices
                  THEN D.state.renderTargets[RenderTargetIndex]
                  ELSE oob
    IN  IF slot = Null THEN Fail([D EXCEPT !.value = Null], "D3DERR_NOTFOUND")
        ELSE [D EXCEPT !.value = slot]

\* SetRenderState that forgets to store the value
SetRenderStateNoStore(D, State, Value) ==
  IF State > 255 \/ (State < D3DRS_ZENABLE /\ State # 0) THEN D
  ELSE IF ShouldRecord(D) THEN Capture(D, "RenderState", State, Value, "")
  ELSE D

SetRenderState(D, State, Value) ==
  IF State > 255 \/ (State < D3DRS_ZENABLE /\ State # 0) THEN D
  ELSE IF ShouldRecord(D) THEN Capture(D, "RenderState", State, Value, "")
  ELSE IF D.state.renderStates[State] = Value THEN D
  ELSE IF State = D3DRS_POINTSIZE
            /\ Value \in {AlphaToCoverageEnable, AlphaToCoverageDisable}
    THEN LET D1 == [D EXCEPT !.state.amdATOC = (Value = AlphaToCoverageEnable)]
         IN  IF D.state.amdATOC # D1.state.amdATOC
               THEN SetFlag(D1, "DirtyMultiSampleState")
               ELSE D1
  ELSE
    LET D1 == [D EXCEPT !.state.renderStates[State] = Value]
    IN  CASE State \in {D3DRS_COLORWRITEENABLE, D3DRS_COLORWRITEENABLE1} ->
               SetFlag(D1, "DirtyBlendState")
          [] State = D3DRS_BLENDFACTOR -> BindBlendFactor(D1)
          [] State = D3DRS_MULTISAMPLEMASK ->
               IF "ValidSampleMask" \in D1.flags
                 THEN SetFlag(D1, "DirtyMultiSampleState")
                 ELSE D1
          [] State = D3DRS_SRGBWRITEENABLE -> SetFlag(D1, "DirtyFramebuffer")
          [] OTHER -> D1

\* GetRenderState with a non-null pValue: value is what *pValue receives
GetRenderState(D, State) ==
  IF State > 255 \/ (State < D3DRS_ZENABLE /\ State # 0)
    THEN Fail(D, "D3DERR_INVALIDCALL")
  ELSE IF State < D3DRS_ZENABLE \/ State > D3DRS_BLENDOPALPHA
    THEN [D EXCEPT !.value = 0]
    ELSE [D EXCEPT !.value = D.state.renderStates[State]]

SetVertexDeclaration(D, decl) ==
  IF ShouldRecord(D) THEN Capture(D, "VertexDeclaration", 0, 0, decl)
  ELSE IF decl = D.state.vertexDecl THEN D
  ELSE
    LET dirtyFFShader ==
          \/ decl = Null
          \/ D.state.vertexDecl = Null
          \/ HasPositionT(decl) # HasPositionT(D.state.vertexDecl)
        D1 == IF dirtyFFShader THEN SetFlag(D, "DirtyFFVertexShader") ELSE D
    IN  SetFlag([D1 EXCEPT !.state.vertexDecl = decl], "DirtyInputLayout")

SetVertexShader(D, shader) ==
  IF ShouldRecord(D) THEN Capture(D, "VertexShader", 0, 0, shader)
  ELSE IF shader = D.state.vertexShader THEN D
  ELSE
    LET D1 == [D EXCEPT !.state.vertexShader = shader]
        D2 == IF shader # Null
                THEN BindShader(SetFlag(D1, "DirtyFFVertexShader"), "vertex", shader)
                ELSE D1
    IN  SetFlag(D2, "DirtyInputLayout")

SetPixelShader(D, shader) ==
  IF ShouldRecord(D) THEN Capture(D, "PixelShader", 0, 0, shader)
  ELSE IF shader = D.state.pixelShader THEN D
  ELSE
    LET D1 == [D EXCEPT !.state.pixelShader = shader]
    IN  IF shader # Null
          THEN BindShader(SetFlag(D1, "DirtyFFPixelShader"), "pixel", shader)
          ELSE D1

\* SetStateTexture that leaves the binding to the next draw
SetStateTextureNoBind(D, StateSampler, pTexture) ==
  IF ShouldRecord(D) THEN Capture(D, "Texture", StateSampler, 0, pTexture)
  ELSE IF D.state.textures[StateSampler] = pTexture THEN D
  ELSE [D EXCEPT !.state.textures[StateSampler] = pTexture]

SetStateTexture(D, StateSampler, pTexture) ==
  IF ShouldRecord(D) THEN Capture(D, "Texture", StateSampler, 0, pTexture)
  ELSE IF D.state.textures[StateSampler] = pTexture THEN D
  ELSE BindTexture([D EXCEPT !.state.textures[StateSampler] = pTexture],
                   StateSampler)

\* D3D9DeviceEx::SetStateSamplerState
SetStateSamplerState(D, StateSampler, Type, Value) ==
  IF ShouldRecord(D)
    THEN Capture(D, "SamplerState", StateSampler * 16 + Type, Value, "")
  ELSE IF D.state.samplerStates[StateSampler][Type] = Value THEN D
  ELSE
    LET D1 == [D EXCEPT !.state.samplerStates[StateSampler][Type] = Value]
    IN  CASE Type = D3DSAMP_MAGFILTER ->
               [D1 EXCEPT !.dirtySamplerStates = @ \cup {StateSampler}]
          [] Type = D3DSAMP_SRGBTEXTURE -> BindTexture(D1, StateSampler)
          [] OTHER -> D1

\* BeginStateBlock that starts a new block whatever is being recorded
BeginStateBlockAlways(D) ==
  [D EXCEPT !.recorder = [recording |-> TRUE, captured |-> <<>>]]

BeginStateBlock(D) ==
  IF D.recorder.recording
    THEN Fail(D, "D3DERR_INVALIDCALL")
    ELSE [D EXCEPT !.recorder = [recording |-> TRUE, captured |-> <<>>]]

\* D3D9DeviceEx::EndStateBlock; ppSB: the out-pointer is not null. The
\* block handed out is the recorder
EndStateBlock(D, ppSB) ==
  IF ~ppSB \/ ~D.recorder.recording
    THEN Fail(D, "D3DERR_INVALIDCALL")
    ELSE [D EXCEPT !.value = D.recorder, !.recorder = NoRecorder]

\* ResetEx: the loop that is to unbind the render targets; the result of
\* SetRenderTarget is dropped
RECURSIVE ResetRenderTargets(_, _, _, _)
ResetRenderTargets(D, i, pending, t) ==
  IF i >= MaxSimultaneousRenderTargets THEN D
  ELSE ResetRenderTargets(
         [SetRenderTarget(D, 0, Null, pending, t) EXCEPT !.hr = D.hr],
         i + 1, pending, t)

\* ResetEx: every texture is unbound from sampler i on
RECURSIVE ResetTextures(_, _)
ResetTextures(D, i) ==
  IF i \notin Samplers THEN D
  ELSE ResetTextures(
         DevEmit([D EXCEPT !.state.textures[i] = Null], "bindResourceView",
                 [slot |-> i, view |-> Null]),
         i + 1)

\* ResetEx: every sampler gets the default state and is bound, from i on
RECURSIVE ResetSamplers(_, _)
ResetSamplers(D, i) ==
  IF i \notin Samplers THEN D
  ELSE ResetSamplers(
         BindSampler([D EXCEPT !.state.samplerStates[i] = InitSamplerState], i),
         i + 1)

\* D3D9DeviceEx::ResetEx up to the point where it waits for the worker.
\* pPresentationParameters: the pointer is not null; supported: the back
\* buffer format is one the device presents
ResetExBegin(D, pPresentationParameters, supported, pending, t) ==
  IF ~pPresentationParameters \/ ~supported
    THEN Fail(D, "D3DERR_INVALIDCALL")
  ELSE
    LET D1 == SetDepthStencilSurface(D, Null, pending, t)
        D2 == ResetRenderTargets(D1, 0, pending, t)
        D3 == BindBlendState(
                [D2 EXCEPT !.state.renderStates[D3DRS_COLORWRITEENABLE] = AllOnes,
                           !.state.renderStates[D3DRS_COLORWRITEENABLE1] = AllOnes])
        D4 == BindBlendFactor(
                [D3 EXCEPT !.state.renderStates[D3DRS_BLENDFACTOR] = AllOnes])
        D5 == BindMultiSampleState(
                [D4 EXCEPT !.state.renderStates[D3DRS_MULTISAMPLEMASK] = AllOnes])
        D6 == SetFlag(D5, "DirtyFFPixelData")
        D7 == SetRenderState(D6, D3DRS_POINTSIZE, 1)
        D8 == SetRenderState(D7, D3DRS_SRGBWRITEENABLE, 0)
        D9 == [D8 EXCEPT !.state.streamFreq = [i \in Streams |-> 1]]
        D10 == ResetTextures(D9, 0)
        D11 == [ResetSamplers(D10, 0) EXCEPT !.dirtySamplerStates = {}]
    IN  [D11 EXCEPT !.P = FlushCsChunk(Flush(D11.P, t))]

\* D3D9DeviceEx::ResetEx once the worker has drained and the implicit swap
\* chain has been reset
ResetExEnd(D, EnableAutoDepthStencil, pending, t) ==
  LET D1 == SetRenderTarget(D, 0, "BackBuffer", pending, t)
      D2 == IF EnableAutoDepthStencil
              THEN SetDepthStencilSurface(D1, "AutoDepthStencil", pending, t)
              ELSE D1
      D3 == BindViewportAndScissor(D2)
  IN  [SetFlag(SetFlag(D3, "DirtyFFVertexShader"), "DirtyFFPixelShader")
         EXCEPT !.hr = "D3D_OK"]

\* the draw closure with the instance count it captures
EmitDraw(D) ==
  [D EXCEPT !.P = EmitCs(D.P, [cInstanceCount |-> GetInstanceCount(D.state)]
                                @@ Cmd("draw", NoRes, 0))]

DrawPrimitive(D, hasHazards) == EmitDraw(PrepareDraw(D, hasHazards))

\* D3D9DeviceEx::SetStreamSourceFreq
SetStreamSourceFreq(D, StreamNumber, Setting) ==
  LET indexed == HasBit(Setting, D3DSTREAMSOURCE_INDEXEDDATA)
      instanced == HasBit(Setting, D3DSTREAMSOURCE_INSTANCEDATA)
  IN  IF StreamNumber >= MaxStreams THEN Fail(D, "D3DERR_INVALIDCALL")
      ELSE IF StreamNumber = 0 /\ instanced THEN Fail(D, "D3DERR_INVALIDCALL")
      ELSE IF instanced /\ indexed THEN Fail(D, "D3DERR_INVALIDCALL")
      ELSE IF Setting = 0 THEN Fail(D, "D3DERR_INVALIDCALL")
      ELSE IF ShouldRecord(D)
        THEN Capture(D, "StreamSourceFreq", StreamNumber, Setting, Null)
      ELSE IF D.state.streamFreq[StreamNumber] = Setting THEN D
      ELSE SetFlag([D EXCEPT !.state.streamFreq[StreamNumber] = Setting,
                             !.instancedData =
                                IF instanced THEN @ \cup {StreamNumber}
                                             ELSE @ \ {StreamNumber}],
                   "DirtyInputLayout")

\* ------------------------------------------------------------ D3D9 calls
\* the call op with arguments args returns what D holds
DeviceReturned(op, args, D) ==
  [args |-> args, value |-> D.value] @@ Returned(op, D.hr, D.P)

\* a call that returns in one step: D is what its handler leaves behind
DeviceCall(op, args, D) ==
  /\ pc = Idle
  /\ api = "d3d9"
  /\ Len(D.P.issued) <= budget
  /\ CommitDevice(D)
  /\ ret' = DeviceReturned(op, args, D)
  /\ UNCHANGED <<cfgVars, m_featureLevel, allocVars, m_iaState, query, lastDraw, now, mapVars, pc, workerVars, mem>>

SetRenderTargetCall(RenderTargetIndex, rt) ==
  DeviceCall("SetRenderTarget", <<RenderTargetIndex, rt>>,
             SetRenderTarget(Device, RenderTargetIndex, rt, pendingSubmissions, now))

GetRenderTargetCall(RenderTargetIndex, ppRenderTarget, oob) ==
  DeviceCall("GetRenderTarget",
             <<RenderTargetIndex, IF ppRenderTarget THEN "ppRenderTarget" ELSE Null>>,
             GetRenderTarget(Device, RenderTargetIndex, ppRenderTarget, oob))

SetSamplerStateCall(Sampler, Type, Value) ==
  DeviceCall("SetSamplerState", <<Sampler, Type, Value>>,
             SetStateSamplerState(Device, Sampler, Type, Value))

\* ResetEx enters: a call that is rejected returns at once, any other
\* resets the state, flushes and waits for the worker
ResetExCall(pPresentationParameters, supported, EnableAutoDepthStencil) ==
  /\ pc = Idle
  /\ api = "d3d9"
  /\ LET D == ResetExBegin(Device, pPresentationParameters, supported,
                           pendingSubmissions, now)
     IN  /\ Len(D.P.issued) <= budget
         /\ CommitDevice(D)
         /\ IF D.hr = "D3D_OK"
              THEN /\ pc' = [at |-> "synchronize", op |-> "ResetEx",
                             EnableAutoDepthStencil |-> EnableAutoDepthStencil]
                   /\ ret' = NoReturn
              ELSE /\ pc' = pc
                   /\ ret' = DeviceReturned("ResetEx", <<0, Null>>, D)
  /\ UNCHANGED <<cfgVars, m_featureLevel, allocVars, m_iaState, query, lastDraw, now, mapVars, workerVars, mem>>

\* ResetEx resumes once DxvkCsThread::synchronize has returned
ResetExReturn ==
  /\ pc.at = "synchronize"
  /\ pc.op = "ResetEx"
  /\ csQueue = <<>>
  /\ LET D == ResetExEnd(Device, pc.EnableAutoDepthStencil,
                         pendingSubmissions, now)
     IN  /\ CommitDevice(D)
         /\ ret' = DeviceReturned("ResetEx", <<0, "pPresentationParameters">>, D)
  /\ pc' = Idle
  /\ UNCHANGED <<cfgVars, m_featureLevel, allocVars, m_iaState, query, lastDraw, now, mapVars, workerVars, mem>>

SetDepthStencilSurfaceCall(ds) ==
  DeviceCall("SetDepthStencilSurface", <<0, ds>>,
             SetDepthStencilSurface(Device, ds, pendingSubmissions, now))

SetRenderStateCall(State, Value) ==
  DeviceCall("SetRenderState", <<State, Value>>,
             SetRenderState(Device, State, Value))

GetRenderStateCall(State) ==
  DeviceCall("GetRenderState", <<State, 0>>, GetRenderState(Device, State))

SetVertexDeclarationCall(decl) ==
  DeviceCall("SetVertexDeclaration", <<0, decl>>,
             SetVertexDeclaration(Device, decl))

SetStreamSourceFreqCall(StreamNumber, Setting) ==
  DeviceCall("SetStreamSourceFreq", <<StreamNumber, Setting>>,
             SetStreamSourceFreq(Device, StreamNumber, Setting))

SetVertexShaderCall(shader) ==
  DeviceCall("SetVertexShader", <<0, shader>>, SetVertexShader(Device, shader))

SetPixelShaderCall(shader) ==
  DeviceCall("SetPixelShader", <<0, shader>>, SetPixelShader(Device, shader))

SetTextureCall(StateSampler, pTexture) ==
  DeviceCall("SetTexture", <<StateSampler, pTexture>>,
             SetStateTexture(Device, StateSampler, pTexture))

BeginStateBlockCall ==
  DeviceCall("BeginStateBlock", <<0, 0>>, BeginStateBlock(Device))

EndStateBlockCall(ppSB) ==
  DeviceCall("EndStateBlock", <<0, IF ppSB THEN "ppSB" ELSE Null>>,
             EndStateBlock(Device, ppSB))

\* DrawPrimitive: PrepareDraw, then the draw command
DrawPrimitiveCall ==
  /\ pc = Idle
  /\ api = "d3d9"
  /\ LET D == DrawPrimitive(Device, opt.hasHazards)
     IN  /\ Len(D.P.issued) <= budget
         /\ CommitDevice(D)
         /\ ret' = [prev |-> lastDraw] @@ DeviceReturned("DrawPrimitive", <<0, 0>>, D)
         /\ lastDraw' = [state |-> D.state, flags |-> D.flags,
                         count |-> Len(D.P.issued)]
  /\ UNCHANGED <<cfgVars, m_featureLevel, allocVars, m_iaState, query, now, mapVars, pc, workerVars, mem>>

\* ------------------------------------------------------------ event queries
StallThreshold == 2
\* the event query and an occlusion query
EventQuery == Res("query", 0)
OcclusionQuery == Res("query", 1)
Queries == {EventQuery, OcclusionQuery}
NoQuery == [stalls |-> 0]

\* stall bookkeeping of the query; the count stops one above the threshold
NotifyStall(q) ==
  [q EXCEPT !.stalls = IF @ > StallThreshold THEN @ ELSE @ + 1]
NotifyEnd(q) == q
IsStalling(q) == q.stalls > StallThreshold
IsEvent(q) == q = EventQuery

\* the query was ended at least once
Ended(q) == \E i \in 1..Len(issued) : issued[i].kind = "endQuery" /\ issued[i].res = q

\* End that requests an implicit flush from a stalling query too
EndNoStall(q) ==
  /\ pc = Idle
  /\ CanEmit(2)
  /\ LET P1 == EmitCs(Producer, Cmd("endQuery", q, 0))
         P2 == IF ~IsEvent(q) THEN P1
               ELSE FlushImplicit(P1, TRUE, pendingSubmissions, now)
     IN  /\ Commit(P2)
         /\ ret' = [args |-> q, stalling |-> IsEvent(q) /\ IsStalling(NotifyEnd(query))]
                     @@ Returned("End", "S_OK", P2)
  /\ query' = IF IsEvent(q) THEN NotifyEnd(query) ELSE query
  /\ UNCHANGED <<cfgVars, m_featureLevel, allocVars, m_iaState, devVars, now, mapVars, pc, workerVars, mem>>

\* End: the end command, then for an event query a flush request
End(q) ==
  /\ pc = Idle
  /\ CanEmit(2)
  /\ LET P1 == EmitCs(Producer, Cmd("endQuery", q, 0))
         P2 == IF ~IsEvent(q) THEN P1
               ELSE IF IsStalling(NotifyEnd(query))
                 THEN Flush(P1, now)
                 ELSE FlushImplicit(P1, TRUE, pendingSubmissions, now)
     IN  /\ Commit(P2)
         /\ ret' = [args |-> q, stalling |-> IsEvent(q) /\ IsStalling(NotifyEnd(query))]
                     @@ Returned("End", "S_OK", P2)
  /\ query' = IF IsEvent(q) THEN NotifyEnd(query) ELSE query
  /\ UNCHANGED <<cfgVars, m_featureLevel, allocVars, m_iaState, devVars, now, mapVars, pc, workerVars, mem>>

\* GetData of the event query with valid arguments: SynchronizeCsThread
GetDataCall ==
  /\ pc = Idle
  /\ api = "d3d11"
  /\ Ended(EventQuery)
  /\ CanEmit(1)
  /\ LET P == FlushCsChunk(Producer)
     IN  Commit(P)
  /\ pc' = [at |-> "synchronize", op |-> "GetData"]
  /\ ret' = NoReturn
  /\ UNCHANGED <<cfgVars, m_featureLevel, allocVars, m_iaState, query, devVars, now, mapVars, workerVars, mem>>

\* GetData once the worker has caught up: the event is signalled when the
\* submission that holds its end command has completed
GetDataReturn ==
  /\ pc = [at |-> "synchronize", op |-> "GetData"]
  /\ csQueue = <<>>
  /\ LET hr == IF isInUse(EventQuery) THEN "S_FALSE" ELSE "S_OK"
         P == IF hr = "S_FALSE"
                THEN FlushImplicit(Producer, FALSE, pendingSubmissions, now)
                ELSE Producer
     IN  /\ Commit(P)
         /\ ret' = Returned("GetData", hr, P)
         /\ query' = IF hr = "S_FALSE" THEN NotifyStall(query) ELSE query
  /\ pc' = Idle
  /\ UNCHANGED <<cfgVars, m_featureLevel, allocVars, m_iaState, devVars, now, mapVars, workerVars, mem>>

\* ------------------------------------------------------------ specification
NoTexture ==
  [mapMode |-> "none", staging |-> FALSE, early |-> FALSE, packed |-> FALSE,
   pool |-> "none", autoMip |-> FALSE, fixup |-> FALSE,
   mapType |-> [s \in Subresources |-> NotMapped],
   lockFlags |-> [s \in Subresources |-> {}],
   hasBuffer |-> [s \in Subresources |-> FALSE]]

\* a buffer just created: slice 1 is mapped and current
NewBuffer(mode) == [mapMode |-> mode, mappedSlice |-> 1, mapFlags |-> {}]

DefaultOptions ==
  [allowMapFlagNoWait |-> TRUE, allowLockFlagReadonly |-> TRUE,
   evictManagedOnUnlock |-> FALSE, hasHazards |-> FALSE]

\* the D3D9 state after device creation: nothing drawn, no block recorded
InitDevice ==
  /\ m_state = InitState
  /\ m_flags = InitFlags
  /\ m_recorder = NoRecorder
  /\ hazardous = {}
  /\ lastDraw = [state |-> InitState, flags |-> InitFlags, count |-> 0]
  /\ m_instancedData = {}
  /\ m_dirtySamplerStates = {}

\* nothing mapped, nothing recorded, no call made yet
InitCore ==
  /\ now = 0
  /\ m_lastFlush = 0
  /\ m_csIsBusy = FALSE
  /\ m_csChunk = <<[Cmd("beginRecording", NoRes, 0) EXCEPT !.seq = 1]>>
  /\ issued = m_csChunk
  /\ executed = <<>>
  /\ cmdList = EmptyCmdList
  /\ nextSlice = [b \in Buffers |-> 2]
  /\ physSlice = [b \in Buffers |-> 1]
  /\ mem = [img |-> [s \in Subresources |-> 0],
            stg |-> [s \in Subresources |-> <<0>>]]
  /\ app = [s \in Subresources |-> [ptr |-> NullPtr, wr |-> FALSE, last |-> 0]]
  /\ pc = Idle
  /\ ret = NoReturn
  /\ m_iaState = NoIaState
  /\ m_chunks = [t \in MemTypeIds |-> <<>>]
  /\ m_live = {}
  /\ m_stats = [memoryAllocated |-> 0, memoryUsed |-> 0]

InitRest ==
  /\ InitCore
  /\ InitDevice
  /\ query = NoQuery
  /\ m_featureLevel = maxFeatureLevel

\* The state after the constructor: one command (beginRecording) appended.
Init ==
  /\ api \in {"d3d11", "d3d9"}
  /\ opt = DefaultOptions
  /\ budget = MaxCmds
  /\ buffer = NewBuffer("direct")
  /\ texture = NoTexture
  /\ csQueue = <<>>
  /\ gpuQueue = <<>>
  /\ InitRest

\* Command stream: draws, flushes, command lists and synchronisation.
Next ==
  \/ \E r \in DrawResources : Draw(r)
  \/ FlushCall
  \/ \E b \in BOOLEAN : ExecuteCommandList(b)
  \/ SynchronizeCsThreadCall
  \/ SynchronizeCsThreadReturn
  \/ WorkerStep
  \/ GpuComplete
  \/ Tick(MinFlushIntervalUs)

Spec == Init /\ [][Next]_vars

\* The same system with a worker thread that keeps running.
FairSpec == Spec /\ WF_vars(WorkerStep)

\* Flush policy: the device starts with 0..MaxInitPending submissions pending.
InitPolicy ==
  /\ api \in {"d3d11", "d3d9"}
  /\ opt = DefaultOptions
  /\ budget = MaxCmds
  /\ buffer = NewBuffer("direct")
  /\ texture = NoTexture
  /\ csQueue = <<>>
  /\ \E n \in 0..MaxInitPending : gpuQueue = [i \in 1..n |-> EmptyCmdList]
  /\ InitRest

NextPolicy ==
  \/ OMSetRenderTargets
  \/ UpdateSubresource
  \/ EndScene
  \/ WorkerStep
  \/ GpuComplete
  \/ Tick(IncFlushIntervalUs)

SpecPolicy == InitPolicy /\ [][NextPolicy]_vars

\* the kinds of D3D11 texture that can be mapped
TextureKinds ==
  { [mapMode |-> "direct", staging |-> FALSE, early |-> FALSE, packed |-> FALSE],
    [mapMode |-> "buffer", staging |-> FALSE, early |-> FALSE, packed |-> FALSE],
    [mapMode |-> "buffer", staging |-> FALSE, early |-> FALSE, packed |-> TRUE],
    [mapMode |-> "buffer", staging |-> TRUE, early |-> FALSE, packed |-> FALSE],
    [mapMode |-> "buffer", staging |-> TRUE, early |-> TRUE, packed |-> FALSE] }

NewTexture(kind) == kind @@ NoTexture

\* Buffer mapping: the device holds one mappable buffer.
InitMapBuffer ==
  /\ opt = DefaultOptions
  /\ budget = MaxBufferCmds
  /\ \/ /\ api = "d3d11"
        /\ buffer = NewBuffer("direct")
     \/ /\ api = "d3d9"
        /\ buffer \in {NewBuffer("direct"), NewBuffer("buffer")}
  /\ texture = NoTexture
  /\ csQueue = <<>>
  /\ gpuQueue = <<>>
  /\ InitRest

NextMapBuffer ==
  \/ \E r \in DrawResources : Draw(r)
  \/ \E m \in MapTypes, w \in BOOLEAN : MapBuffer(m, w)
  \/ \E f \in SUBSET LockFlags : LockBuffer(f)
  \/ UnlockBuffer
  \/ WaitForResourceSynced
  \/ WaitForResourceIdle
  \/ WorkerStep
  \/ GpuComplete
  \/ Tick(MaxTicks * IncFlushIntervalUs)

SpecMapBuffer == InitMapBuffer /\ [][NextMapBuffer]_vars

\* Buffer mapping with threads that keep running: the worker executes the
\* chunks published to it, the GPU completes what was submitted, and the
\* thread inside WaitForResource goes on once what it waits for has happened.
FairSpecMapBuffer ==
  /\ SpecMapBuffer
  /\ WF_vars(WorkerStep)
  /\ WF_vars(GpuComplete)
  /\ WF_vars(WaitForResourceSynced)
  /\ WF_vars(WaitForResourceIdle)

\* Texture mapping: the D3D11 device holds one mappable texture.
InitMapImage ==
  /\ opt = DefaultOptions
  /\ budget = MaxMapCmds
  /\ api = "d3d11"
  /\ buffer = NewBuffer("none")
  /\ \E k \in TextureKinds : texture = NewTexture(k)
  /\ csQueue = <<>>
  /\ gpuQueue = <<>>
  /\ InitRest

NextMapImage ==
  \/ \E r \in DrawResources : Draw(r)
  \/ \E u \in SubresourceArgs, m \in MapTypes, w \in BOOLEAN : MapImage(u, m, w)
  \/ \E u \in Subresources : UnmapImage(u)
  \/ \E u \in Subresources, v \in Data : CpuWrite(u, v)
  \/ WaitForResourceSynced
  \/ WaitForResourceIdle
  \/ WorkerStep
  \/ GpuComplete
  \/ Tick(MaxTicks * IncFlushIntervalUs)

SpecMapImage == InitMapImage /\ [][NextMapImage]_vars

\* the kinds of D3D9 texture that can be locked
LockableKinds ==
  { [mapMode |-> "backed", pool |-> "DEFAULT", autoMip |-> FALSE, fixup |-> FALSE],
    [mapMode |-> "backed", pool |-> "DEFAULT", autoMip |-> TRUE, fixup |-> FALSE],
    [mapMode |-> "backed", pool |-> "DEFAULT", autoMip |-> FALSE, fixup |-> TRUE],
    [mapMode |-> "backed", pool |-> "MANAGED", autoMip |-> FALSE, fixup |-> FALSE],
    [mapMode |-> "systemmem", pool |-> "SYSTEMMEM", autoMip |-> FALSE,
     fixup |-> FALSE] }

\* a texture in system memory has its buffers from the start
NewLockable(kind) ==
  [NewTexture(kind) EXCEPT
     !.hasBuffer = [s \in Subresources |-> kind.mapMode = "systemmem"]]

\* Texture locking: the D3D9 device holds one lockable texture.
InitLock ==
  /\ opt \in {DefaultOptions, [DefaultOptions EXCEPT !.evictManagedOnUnlock = TRUE]}
  /\ budget = MaxMapCmds
  /\ api = "d3d9"
  /\ buffer = NewBuffer("none")
  /\ \E k \in LockableKinds : texture = NewLockable(k)
  /\ csQueue = <<>>
  /\ gpuQueue = <<>>
  /\ InitRest

NextLock ==
  \/ \E u \in Subresources, f \in SUBSET LockFlags : LockImage(u, f)
  \/ \E u \in Subresources : UnlockImage(u)
  \/ WaitForResourceSynced
  \/ WaitForResourceIdle
  \/ WorkerStep
  \/ GpuComplete
  \/ Tick(MaxTicks * IncFlushIntervalUs)

SpecLock == InitLock /\ [][NextLock]_vars

\* Flush hints: render-target changes, scene ends and event queries on a
\* device that starts with 0..MaxInitPending submissions pending; on D3D9
\* the event query may have been marked stalling before.
InitHint ==
  /\ api \in {"d3d11", "d3d9"}
  /\ opt = DefaultOptions
  /\ budget = MaxHintCmds
  /\ buffer = NewBuffer("none")
  /\ texture = NoTexture
  /\ csQueue = <<>>
  /\ \E n \in {0, MaxPendingSubmits + 1} :
       gpuQueue = [i \in 1..n |-> EmptyCmdList]
  /\ InitCore
  /\ InitDevice
  /\ m_featureLevel = maxFeatureLevel
  /\ query \in {NoQuery} \cup {[stalls |-> StallThreshold + 1] : a \in {api} \cap {"d3d9"}}

NextHint ==
  \/ OMSetRenderTargets
  \/ EndScene
  \/ \E i \in RTIndices : SetRenderTargetCall(i, "TexA")
  \/ \E q \in Queries : End(q)
  \/ GetDataCall
  \/ GetDataReturn
  \/ WorkerStep
  \/ GpuComplete
  \/ Tick((MaxTicks * IncFlushIntervalUs) \div 2)

SpecHint == InitHint /\ [][NextHint]_vars

\* Draw preparation: a D3D9 device whose shaders, vertex declaration,
\* texture, render target and render states change between draws.
InitDraw ==
  /\ api = "d3d9"
  /\ opt = DefaultOptions
  /\ budget = MaxDrawCmds
  /\ buffer = NewBuffer("none")
  /\ texture = NoTexture
  /\ csQueue = <<>>
  /\ gpuQueue = <<>>
  /\ InitRest

NextDraw ==
  \/ \E shader \in {"VS", Null} : SetVertexShaderCall(shader)
  \/ \E decl \in VertexDecls : SetVertexDeclarationCall(decl)
  \/ \E t \in {"TexA", Null} : SetTextureCall(0, t)
  \/ \E v \in {0, AllOnes} : SetRenderStateCall(D3DRS_COLORWRITEENABLE, v)
  \/ DrawPrimitiveCall

SpecDraw == InitDraw /\ [][NextDraw]_vars

\* State blocks and render states: mutators and GetRenderState inside and
\* outside a BeginStateBlock/EndStateBlock pair.
InitStateBlock ==
  /\ api = "d3d9"
  /\ opt = DefaultOptions
  /\ budget = MaxBlockCmds
  /\ buffer = NewBuffer("none")
  /\ texture = NoTexture
  /\ csQueue = <<>>
  /\ gpuQueue = <<>>
  /\ InitRest

\* the render-state ids a caller passes: 3 and 256 are out of range
RenderStateArgs == {0, 3, D3DRS_POINTSIZE, D3DRS_MULTISAMPLEMASK, 256}
RenderStateValues == {1, AlphaToCoverageEnable}

\* a call of a mutator that consults ShouldRecord
ReroutedMutation ==
  \/ \E k \in {D3DRS_MULTISAMPLEMASK, 256}, v \in {0, 1} : SetRenderStateCall(k, v)
  \/ \E shader \in {"VS", Null} : SetVertexShaderCall(shader)
  \/ \E t \in {"TexA", Null} : SetTextureCall(0, t)

\* a call of a mutator that does not
DirectMutation ==
  \/ \E i \in RTIndices : SetRenderTargetCall(i, "TexA")
  \/ \E ds \in {"TexB", Null} : SetDepthStencilSurfaceCall(ds)

NextStateBlock ==
  \/ BeginStateBlockCall
  \/ \E ppSB \in BOOLEAN : EndStateBlockCall(ppSB)
  \/ ReroutedMutation
  \/ DirectMutation

SpecStateBlock == InitStateBlock /\ [][NextStateBlock]_vars

\* Render states: SetRenderState and GetRenderState, also while a state
\* block is recorded.
NextRenderState ==
  \/ BeginStateBlockCall
  \/ \E ppSB \in BOOLEAN : EndStateBlockCall(ppSB)
  \/ \E k \in RenderStateArgs, v \in RenderStateValues : SetRenderStateCall(k, v)
  \/ \E k \in RenderStateArgs : GetRenderStateCall(k)

SpecRenderState == InitStateBlock /\ [][NextRenderState]_vars

\* Hazards: a texture bound as render target and sampled by the pixel
\* shader, with d3d9.hasHazards set.
InitHazard ==
  /\ api = "d3d9"
  /\ opt = [DefaultOptions EXCEPT !.hasHazards = TRUE]
  /\ budget = MaxHazardCmds
  /\ buffer = NewBuffer("none")
  /\ texture = NoTexture
  /\ csQueue = <<>>
  /\ gpuQueue = <<>>
  /\ InitRest

NextHazard ==
  \/ \E i \in RTIndices, rt \in {"TexA", "TexB"} : SetRenderTargetCall(i, rt)
  \/ SetTextureCall(0, "TexA")
  \/ SetPixelShaderCall("PSMrt")
  \/ SetRenderStateCall(D3DRS_COLORWRITEENABLE, 0)
  \/ DrawPrimitiveCall

SpecHazard == InitHazard /\ [][NextHazard]_vars

\* Sample mask: render target 0 with and without a maskable multisample
\* type, the MULTISAMPLEMASK render state and the alpha-to-coverage codes.
InitSampleMask ==
  /\ api = "d3d9"
  /\ opt = DefaultOptions
  /\ budget = MaxMaskCmds
  /\ buffer = NewBuffer("none")
  /\ texture = NoTexture
  /\ csQueue = <<>>
  /\ gpuQueue = <<>>
  /\ InitRest

NextSampleMask ==
  \/ \E rt \in {"BackBuffer", "TexMS", "TexNM"} : SetRenderTargetCall(0, rt)
  \/ SetRenderTargetCall(1, "TexMS")
  \/ \E v \in {1, AllOnes} : SetRenderStateCall(D3DRS_MULTISAMPLEMASK, v)
  \/ \E v \in {AlphaToCoverageEnable, AlphaToCoverageDisable} :
       SetRenderStateCall(D3DRS_POINTSIZE, v)
  \/ DrawPrimitiveCall

SpecSampleMask == InitSampleMask /\ [][NextSampleMask]_vars

\* The dirty set: every kind of mutator the model has runs between draws,
\* with fixed-function and programmable shaders on both stages.
InitDirty ==
  /\ api = "d3d9"
  /\ opt = DefaultOptions
  /\ budget = MaxDirtyCmds
  /\ buffer = NewBuffer("none")
  /\ texture = NoTexture
  /\ csQueue = <<>>
  /\ gpuQueue = <<>>
  /\ InitRest

NextDirty ==
  \/ SetVertexShaderCall("VS")
  \/ SetPixelShaderCall("PS")
  \/ \E decl \in VertexDecls : SetVertexDeclarationCall(decl)
  \/ \E Type \in {D3DSAMP_MAGFILTER, D3DSAMP_SRGBTEXTURE}, v \in {0, 1} :
       SetSamplerStateCall(0, Type, v)
  \/ SetRenderTargetCall(0, "TexMS")
  \/ SetRenderStateCall(D3DRS_COLORWRITEENABLE, 0)
  \/ DrawPrimitiveCall

SpecDirty == InitDirty /\ [][NextDirty]_vars

\* Device reset: render targets are bound, read back and reset; the
\* indices reach one past MaxSimultaneousRenderTargets.
SlotArgs == 0..(MaxSimultaneousRenderTargets + 1)

InitReset ==
  /\ api = "d3d9"
  /\ opt = DefaultOptions
  /\ budget = MaxResetCmds
  /\ buffer = NewBuffer("none")
  /\ texture = NoTexture
  /\ csQueue = <<>>
  /\ gpuQueue = <<>>
  /\ InitRest

NextReset ==
  \/ \E i \in SlotArgs, rt \in {"TexA", Null} : SetRenderTargetCall(i, rt)
  \/ \E i \in SlotArgs, pp \in BOOLEAN, oob \in {"TexB", Null} :
       GetRenderTargetCall(i, pp, oob)
  \/ \E ds \in {"TexB", Null} : SetDepthStencilSurfaceCall(ds)
  \/ \E pp \in BOOLEAN, supported \in BOOLEAN, ads \in BOOLEAN :
       ResetExCall(pp, supported, ads)
  \/ ResetExReturn
  \/ WorkerStep
  \/ GpuComplete

SpecReset == InitReset /\ [][NextReset]_vars

\* The memory allocator: allocations of every size class and alignment,
\* with and without a dedicated-allocation hint, and frees in any order.
\* what the driver can still hand out when alloc is called
AvailValues == {0, HeapSize}

InitMemory ==
  /\ api = "d3d9"
  /\ opt = DefaultOptions
  /\ budget = 0
  /\ buffer = NewBuffer("none")
  /\ texture = NoTexture
  /\ csQueue = <<>>
  /\ gpuQueue = <<>>
  /\ InitRest

NextMemory ==
  \/ \E q \in Requests, avail \in AvailValues : AllocCall(q, avail)
  \/ \E memory \in m_live : FreeCall(memory)

SpecMemory == InitMemory /\ [][NextMemory]_vars

\* Buffer mapping with the allowMapFlagNoWait option disabled.
InitNoWait ==
  /\ opt = [DefaultOptions EXCEPT !.allowMapFlagNoWait = FALSE]
  /\ budget = MaxBufferCmds
  /\ api \in {"d3d11", "d3d9"}
  /\ buffer = NewBuffer("direct")
  /\ texture = NoTexture
  /\ csQueue = <<>>
  /\ gpuQueue = <<>>
  /\ InitRest

NextNoWait ==
  \/ \E r \in DrawResources : Draw(r)
  \/ \E m \in MapTypes, w \in BOOLEAN : MapBuffer(m, w)
  \/ \E f \in SUBSET LockFlags : LockBuffer(f)
  \/ UnlockBuffer
  \/ WaitForResourceSynced
  \/ WaitForResourceIdle
  \/ WorkerStep
  \/ GpuComplete
  \/ Tick(MaxTicks * IncFlushIntervalUs)

SpecNoWait == InitNoWait /\ [][NextNoWait]_vars

\* Failing calls: the D3D9 device holds one lockable texture; render
\* targets are set with valid and invalid arguments and the texture is
\* locked while it may be in use.
RenderTargetArgs == 0..MaxSimultaneousRenderTargets

InitFailure ==
  /\ opt = DefaultOptions
  /\ budget = MaxMapCmds
  /\ api = "d3d9"
  /\ buffer = NewBuffer("none")
  /\ \E k \in LockableKinds : texture = NewLockable(k)
  /\ csQueue = <<>>
  /\ gpuQueue = <<>>
  /\ InitRest

NextFailure ==
  \/ \E i \in RenderTargetArgs, rt \in {"TexA", Null} : SetRenderTargetCall(i, rt)
  \/ \E u \in Subresources, f \in SUBSET {"READONLY", "DONOTWAIT"} :
       LockImage(u, f)
  \/ \E u \in Subresources : UnlockImage(u)
  \/ WaitForResourceSynced
  \/ WaitForResourceIdle
  \/ WorkerStep
  \/ GpuComplete

SpecFailure == InitFailure /\ [][NextFailure]_vars

\* Input layouts: vertex declarations, the vertex shader and stream
\* frequencies change between draws while the worker executes.
FreqArgs ==
  {<<0, 2>>, <<0, D3DSTREAMSOURCE_INSTANCEDATA + 1>>,
   <<1, D3DSTREAMSOURCE_INSTANCEDATA + 1>>}

InitInputLayout ==
  /\ api = "d3d9"
  /\ opt = DefaultOptions
  /\ budget = MaxLayoutCmds
  /\ buffer = NewBuffer("none")
  /\ texture = NoTexture
  /\ csQueue = <<>>
  /\ gpuQueue = <<>>
  /\ InitRest

NextInputLayout ==
  \/ \E decl \in {"Decl", Null} : SetVertexDeclarationCall(decl)
  \/ SetVertexShaderCall("VS")
  \/ \E a \in FreqArgs : SetStreamSourceFreqCall(a[1], a[2])
  \/ DrawPrimitiveCall
  \/ WorkerStep

SpecInputLayout == InitInputLayout /\ [][NextInputLayout]_vars

\* The D3D11 device: context-state objects and views are created on a
\* device that was created at any supported feature level.
LevelArgs ==
  UNION {[1..n -> FeatureLevelValues] : n \in 0..MaxLevelArgs}

InitDevice11 ==
  /\ api = "d3d11"
  /\ opt = DefaultOptions
  /\ budget = 0
  /\ buffer = NewBuffer("none")
  /\ texture = NoTexture
  /\ csQueue = <<>>
  /\ gpuQueue = <<>>
  /\ InitCore
  /\ InitDevice
  /\ query = NoQuery
  /\ m_featureLevel \in {l \in FeatureLevelValues : CheckFeatureLevelSupport(l)}

NextDevice11 ==
  \/ \E nullLevels \in BOOLEAN, pFeatureLevels \in LevelArgs,
        EmulatedInterface \in {"ID3D11Device", "IUnknown"},
        wantChosen \in BOOLEAN, wantState \in BOOLEAN :
       CreateDeviceContextStateCall(nullLevels, pFeatureLevels,
                                    EmulatedInterface, wantChosen, wantState)
  \/ GetFeatureLevelCall
  \/ \E pResource \in ResourceDims \cup {Null}, descOk \in BOOLEAN,
        compatible \in BOOLEAN, throws \in BOOLEAN, wantView \in BOOLEAN :
       \/ CreateRenderTargetViewCall(pResource, descOk, compatible, throws,
                                     wantView)
       \/ CreateDepthStencilViewCall(pResource, descOk, compatible, throws,
                                     wantView)

SpecDevice11 == InitDevice11 /\ [][NextDevice11]_vars

\* Resource creation on either API while the driver's memory runs out.
ResourceSizes == {chunkSize \div 4 - 1, chunkSize \div 4}

InitCreate ==
  /\ api \in {"d3d9", "d3d11"}
  /\ opt = DefaultOptions
  /\ budget = 0
  /\ buffer = NewBuffer("none")
  /\ texture = NoTexture
  /\ csQueue = <<>>
  /\ gpuQueue = <<>>
  /\ InitRest

NextCreate ==
  \/ \E size \in ResourceSizes, avail \in AvailValues :
       CreateTextureCall(size, avail)
  \/ \E size \in ResourceSizes, avail \in AvailValues :
       CreateVertexBufferCall(size, avail)
  \/ \E size \in ResourceSizes, avail \in AvailValues :
       CreateIndexBufferCall(size, avail)
  \/ \E size \in ResourceSizes, avail \in AvailValues :
       CreateBufferCall(size, avail)
  \/ \E memory \in m_live : FreeCall(memory)

SpecCreate == InitCreate /\ [][NextCreate]_vars

\* ------------------------------------------------------------ claims
IsPrefix(s, t) ==
  /\ Len(s) <= Len(t)
  /\ \A i \in 1..Len(s) : s[i] = t[i]

\* C1: the worker executes the commands in exactly the order the producer
\* appended them; the chunks of a command list run in list order between
\* the commands emitted before and after ExecuteCommandList.
C1_OrderPreserved == IsPrefix(executed, issued)

\* a draw, then both chunks of the command list, then a later draw, all run
C1_Witness ==
  /\ Len(executed) = MaxCmds
  /\ \E i, j \in 1..Len(executed) :
       /\ i < j
       /\ executed[i].kind = "draw"
       /\ executed[j].kind = "listDraw" /\ executed[j].arg = 1
       /\ executed[j + 1].kind = "listDraw" /\ executed[j + 1].arg = 2
       /\ executed[MaxCmds].kind = "draw"

\* C2: when SynchronizeCsThread has returned, the current chunk has been
\* published and the worker has executed every command emitted before.
C2_SynchronizeDrains ==
  ret.op = "SynchronizeCsThread" => (m_csChunk = <<>> /\ executed = issued)

C2_Witness ==
  /\ ret.op = "SynchronizeCsThread"
  /\ Len(executed) >= 3

\* the condition of the implicit flush policy
ShouldFlush(StrongHint) ==
  /\ StrongHint \/ Len(gpuQueue) <= 6
  /\ now - m_lastFlush >= 750 + 250 * Len(gpuQueue)

\* C8: a request for an implicit flush calls Flush if and only if (the
\* strong hint is set or at most 6 submissions are pending) and at least
\* 750 us + 250 us * pending have passed since the last flush.
C8_FlushImplicitPolicy ==
  [][ /\ OMSetRenderTargets => (ret'.flushed <=> ShouldFlush(TRUE))
      /\ EndScene => (ret'.flushed <=> ShouldFlush(TRUE))
      /\ UpdateSubresource => (ret'.flushed <=> ShouldFlush(FALSE)) ]_vars

\* a request without the hint is refused only for the pending submissions,
\* and a request with the hint is granted with more than 6 pending
C8_Witness ==
  /\ Len(gpuQueue) > 6
  /\ ret.t - m_lastFlush >= 750 + 250 * Len(gpuQueue)
  /\ ret.op = "UpdateSubresource"
  /\ ~ret.flushed

\* C9 as stated: after every Flush call the last-flush timestamp is the
\* time of that call and the busy flag is false.
C9_EveryFlushAdvances ==
  ret.op = "Flush" => (m_lastFlush = ret.t /\ ~m_csIsBusy)

\* C9, amended: a Flush called while the context is busy or the current
\* chunk holds a command sets the last-flush timestamp to the time of the
\* call and clears the busy flag; any other Flush call changes nothing.
C9_FlushAdvances ==
  [][ FlushCall =>
        IF m_csIsBusy \/ m_csChunk # <<>>
          THEN m_lastFlush' = now /\ ~m_csIsBusy'
          ELSE m_lastFlush' = m_lastFlush /\ ~m_csIsBusy' ]_vars

C9_Witness ==
  /\ ret.op = "Flush"
  /\ ret.emitted = 1
  /\ ret.t > 0
  /\ m_lastFlush = ret.t

\* C10 as stated, in the form a finite run refutes: a Flush call that has
\* returned has emitted a submit command of its own.
C10_EveryFlushSubmits ==
  ret.op = "Flush" => ret.emitted = 1

\* C10, amended: a Flush called while the context is busy or the current
\* chunk holds a command emits one submit command, and the worker
\* eventually executes every submit command emitted.
C10_FlushSubmitExecuted ==
  /\ [][ (FlushCall /\ (m_csIsBusy \/ m_csChunk # <<>>)) =>
           /\ Len(issued') = Len(issued) + 1
           /\ issued'[Len(issued')].kind = "flushCommandList" ]_vars
  /\ \A s \in 1..MaxCmds :
       (Len(issued) >= s /\ issued[s].kind = "flushCommandList")
         ~> (Len(executed) >= s /\ executed[s].kind = "flushCommandList")

C10_Witness ==
  /\ ret.op = "Flush"
  /\ ret.emitted = 1
  /\ executed # <<>>
  /\ executed[Len(executed)].kind = "flushCommandList"
  /\ executed[Len(executed)].seq = Len(issued)

\* ---- mapping claims
Succeeded == {"S_OK", "D3D_OK"}
StillDrawing == {"DXGI_ERROR_WAS_STILL_DRAWING", "D3DERR_WASSTILLDRAWING"}

\* the call asked for a READ, WRITE or READ_WRITE map (D3D9: a lock that
\* neither discards nor promises not to overwrite)
BlockingMode(call) ==
  IF call.op = "LockBuffer"
    THEN call.flags \cap {"DISCARD", "NOOVERWRITE"} = {}
    ELSE call.mtype \in {"READ", "WRITE", "READ_WRITE"}

\* C3: a map in READ, WRITE or READ_WRITE mode without DO_NOT_WAIT returns
\* success only after the worker has executed every command emitted before
\* the call and the mapped resource is no longer in use.
C3_BlockingMapWaits ==
  ( /\ ret.op \in {"MapBuffer", "MapImage", "LockBuffer"}
    /\ ret.hr \in Succeeded
    /\ BlockingMode(ret.call)
    /\ ~ret.call.req )
  => (ret.done >= ret.base /\ ~ret.inUse)

IsDiscard(call) ==
  IF call.op = "LockBuffer" THEN "DISCARD" \in call.flags
                            ELSE call.mtype = "WRITE_DISCARD"

\* C4: a WRITE_DISCARD buffer map returns success without going through
\* WaitForResource, emits exactly one command, an invalidateBuffer of the
\* mapped buffer that carries a slice no earlier map handed out, leaves that
\* slice as the buffer's mapped slice and returns its pointer.
C4_DiscardRenames ==
  ( /\ ret.op \in {"MapBuffer", "LockBuffer"}
    /\ IsDiscard(ret.call) )
  => /\ ret.hr \in Succeeded
     /\ ~ret.call.waited
     /\ ret.emitted = 1
     /\ issued[ret.base + 1].kind = "invalidateBuffer"
     /\ issued[ret.base + 1].res = ret.call.res
     /\ issued[ret.base + 1].arg = buffer.mappedSlice
     /\ ret.ptr = SlicePtr(ret.call.res, buffer.mappedSlice)
     /\ buffer.mappedSlice # NewBuffer("direct").mappedSlice
     /\ \A i \in 1..ret.base :
          issued[i].kind = "invalidateBuffer" => issued[i].arg # buffer.mappedSlice

\* a discarding map has returned while the buffer was in use and the worker
\* had not executed the commands emitted before the call
C4_Witness ==
  /\ ret.op \in {"MapBuffer", "LockBuffer"}
  /\ IsDiscard(ret.call)
  /\ ret.inUse
  /\ ret.done < ret.base

\* the per-subresource map bookkeeping the call op works on
MapBookkeeping(op) ==
  CASE op = "MapImage" -> texture.mapType
    [] op = "LockImage" -> <<texture.lockFlags, texture.hasBuffer>>
    [] OTHER -> buffer.mapFlags

\* C5: a map that fails with the still-drawing error because DO_NOT_WAIT was
\* set has emitted nothing but the flush of an implicit flush and has left
\* the map bookkeeping as it was before the call.
C5_FailedMapNoSideEffect ==
  ( /\ ret.op \in {"MapBuffer", "MapImage", "LockBuffer", "LockImage"}
    /\ ret.hr \in StillDrawing
    /\ ret.call.req )
  => /\ \A i \in (ret.base + 1)..(ret.base + ret.emitted) :
          issued[i].kind = "flushCommandList"
     /\ MapBookkeeping(ret.op) = ret.call.before

ImageCopies == {"copyBufferToImage", "copyPackedBufferToDepthStencilImage"}

\* C6: unmapping a buffered image subresource after a write map emits
\* exactly one staging-to-image copy, for that subresource and of the packed
\* depth-stencil variant exactly when the format is a packed depth-stencil
\* one; unmapping after a read-only map emits no command.
C6_UnmapEmitsOneCopy ==
  ( /\ ret.op \in {"UnmapImage", "UnlockImage"}
    /\ texture.mapMode \in {"buffer", "backed"} )
  => LET emitted == (ret.base + 1)..(ret.base + ret.emitted)
         copies == {i \in emitted : issued[i].kind \in ImageCopies}
         readOnly == IF ret.op = "UnmapImage"
                       THEN ret.call.mtype = "READ"
                       ELSE "READONLY" \in ret.call.flags
     IN  IF readOnly
           THEN ret.emitted = 0
           ELSE /\ Cardinality(copies) = 1
                /\ \A i \in copies :
                     /\ issued[i].arg = ret.call.sub
                     /\ issued[i].kind = IF texture.packed
                          THEN "copyPackedBufferToDepthStencilImage"
                          ELSE "copyBufferToImage"

\* C7: a READ map of an image subresource that returns success returns the
\* bytes the application last wrote through a write map of that subresource.
C7_ReadBackWritten ==
  \A u \in Subresources :
    ( /\ ret.op = "MapImage"
      /\ ret.hr \in Succeeded
      /\ ret.call.sub = u
      /\ ret.call.mtype = "READ"
      /\ app[u].last \in Data )
    => Deref(ret.ptr) = app[u].last

\* a READ map of a staging texture whose mapped buffer is refreshed from the
\* image has waited for the GPU and returned what the application wrote
C7_Witness ==
  /\ ret.op = "MapImage"
  /\ ret.hr \in Succeeded
  /\ ret.call.mtype = "READ"
  /\ ret.call.waited
  /\ ret.flushed
  /\ texture.staging /\ ~texture.early
  /\ app[ret.call.sub].last \in Data
  /\ Deref(ret.ptr) = app[ret.call.sub].last

\* ------------------------------------------------------------ flush hints
\* C11 as stated: every render-target rebinding, every End of an event
\* query and every D3D9 EndScene requests an implicit flush with the
\* strong hint set.
C11_EveryHintStrong ==
  [][ /\ OMSetRenderTargets => (ret'.flushed <=> ShouldFlush(TRUE))
      /\ EndScene => (ret'.flushed <=> ShouldFlush(TRUE))
      /\ \A i \in RTIndices :
           (SetRenderTargetCall(i, "TexA") /\ m_state' # m_state)
             => (ret'.flushed <=> ShouldFlush(TRUE))
      /\ End(EventQuery) => (ret'.flushed <=> ShouldFlush(TRUE)) ]_vars

\* C11, amended: OMSetRenderTargets, EndScene, a SetRenderTarget that
\* changes render target 0 and the End of an event query that is not
\* stalling request an implicit flush with the strong hint; a
\* SetRenderTarget that changes another render target requests one without
\* the hint, one that changes nothing requests none, and the End of a
\* stalling event query calls Flush itself.
C11_StrongHints ==
  [][ /\ OMSetRenderTargets => (ret'.flushed <=> ShouldFlush(TRUE))
      /\ EndScene => (ret'.flushed <=> ShouldFlush(TRUE))
      /\ \A i \in RTIndices :
           SetRenderTargetCall(i, "TexA")
             => (ret'.flushed <=> (m_state' # m_state /\ ShouldFlush(i = 0)))
      /\ End(EventQuery)
           => (ret'.flushed <=> (IsStalling(query) \/ ShouldFlush(TRUE)))
      /\ End(OcclusionQuery) => ~ret'.flushed ]_vars

\* render target 1 was changed with more than 6 submissions pending and
\* the interval elapsed: the request was refused, a strong one is granted
C11_Witness ==
  /\ ret.op = "SetRenderTarget"
  /\ ret.args[1] = 1
  /\ m_state.renderTargets[1] = "TexA"
  /\ "DirtyFramebuffer" \in m_flags
  /\ ~ret.flushed
  /\ Len(gpuQueue) > 6
  /\ ret.t - m_lastFlush >= 750 + 250 * Len(gpuQueue)

\* the last command issued is a flush and the chunk holding it is published
Submitted ==
  /\ issued[Len(issued)].kind = "flushCommandList"
  /\ m_csChunk = <<>>
  /\ m_lastFlush = now

\* C12: the End of an event query that is marked stalling submits at once,
\* whatever the time since the last flush and the number of pending
\* submissions.
C12_StallingEndSubmits ==
  [][(End(EventQuery) /\ IsStalling(query)) => Submitted']_vars

\* repeated GetData calls found the query not ready, and its next End
\* flushed although no time had passed since the last flush
C12_Witness ==
  /\ api = "d3d11"
  /\ ret.op = "End"
  /\ ret.stalling
  /\ ret.t = 0
  /\ Submitted

NumFlush(cmds) ==
  Cardinality({i \in 1..Len(cmds) : cmds[i].kind = "flushCommandList"})

NativeInit ==
  [framebuffer |-> Attachments([InitState EXCEPT !.renderTargets =
                                  [i \in RTIndices |-> Null]], {}),
   viewport |-> InitState.viewport,
   blend |-> BlendMode(InitState),
   blendConstants |-> InitState.renderStates[D3DRS_BLENDFACTOR],
   ms |-> MultisampleState(InitState, {}),
   vs |-> Null,
   ps |-> Null,
   tex |-> InitState.textures,
   inputLayout |-> Null,
   general |-> {}]

\* the effect of one command on the worker's native state
Exec(n, cmd) ==
  CASE cmd.kind = "bindRenderTargets" -> [n EXCEPT !.framebuffer = cmd.arg]
    [] cmd.kind = "setViewports" -> [n EXCEPT !.viewport = cmd.arg]
    [] cmd.kind = "setBlendMode" -> [n EXCEPT !.blend = cmd.arg]
    [] cmd.kind = "setBlendConstants" -> [n EXCEPT !.blendConstants = cmd.arg]
    [] cmd.kind = "setMultisampleState" -> [n EXCEPT !.ms = cmd.arg]
    [] cmd.kind = "bindShader" ->
         IF cmd.arg.stage = "vertex" THEN [n EXCEPT !.vs = cmd.arg.shader]
                                     ELSE [n EXCEPT !.ps = cmd.arg.shader]
    [] cmd.kind = "bindResourceView" ->
         [n EXCEPT !.tex[cmd.arg.slot] = cmd.arg.view]
    [] cmd.kind = "setInputLayout" -> [n EXCEPT !.inputLayout = cmd.arg]
    [] cmd.kind = "changeImageLayout" -> [n EXCEPT !.general = @ \cup {cmd.arg}]
    [] OTHER -> n

\* the native state after the worker has executed cmds in order
RECURSIVE NativeAfter(_)
NativeAfter(cmds) ==
  IF cmds = <<>> THEN NativeInit
  ELSE Exec(NativeAfter(SubSeq(cmds, 1, Len(cmds) - 1)), cmds[Len(cmds)])

\* the native state a draw with this state vector has to run under
Projection(st, fl, hz) ==
  [framebuffer |-> Attachments(st, hz),
   viewport |-> st.viewport,
   blend |-> BlendMode(st),
   blendConstants |-> st.renderStates[D3DRS_BLENDFACTOR],
   ms |-> MultisampleState(st, fl),
   vs |-> IF UseProgrammableVS(st) THEN st.vertexShader ELSE "FFVS",
   ps |-> IF UseProgrammablePS(st) THEN st.pixelShader ELSE "FFPS",
   tex |-> st.textures,
   inputLayout |-> st.vertexDecl,
   general |-> hz]

\* C14: when a draw has been emitted, the native state the commands
\* emitted so far establish equals the projection of the state vector: no
\* binding of an earlier state is still in effect.
C14_NativeMatchesState ==
  ret.op = "DrawPrimitive"
    => NativeAfter(issued) = Projection(m_state, m_flags, hazardous)

\* the commands of s and of t carry the same bindings
SameCommands(s, t) ==
  /\ \A i \in 1..Len(s) : \E j \in 1..Len(t) :
       s[i].kind = t[j].kind /\ s[i].arg = t[j].arg
  /\ \A j \in 1..Len(t) : \E i \in 1..Len(s) :
       s[i].kind = t[j].kind /\ s[i].arg = t[j].arg

\* the commands a draw emits right after the last draw, with no mutation
\* in between
DrawAlone ==
  LET D0 == [Device EXCEPT !.state = lastDraw.state, !.flags = lastDraw.flags]
      D == DrawPrimitive(D0, opt.hasHazards)
  IN  SubSeq(D.P.issued, Len(issued) + 1, Len(D.P.issued))

StateFlags(st) ==
  IF MultiSample(st.renderTargets[0]) > D3DMULTISAMPLE_NONMASKABLE
    THEN {"ValidSampleMask"} ELSE {}

\* the native state apart from the vertex shader binding
NoVertexShader(n) == [n EXCEPT !.vs = Null]

LegalRenderState(k) == k = 0 \/ (k >= D3DRS_ZENABLE /\ k <= 255)

\* C16 as stated: between BeginStateBlock and EndStateBlock no mutator
\* call modifies the state vector, sets a dirty bit or emits a command.
C16_RecordingLeavesDeviceAlone ==
  [][((ReroutedMutation \/ DirectMutation) /\ m_recorder.recording)
       => (m_state' = m_state /\ m_flags' = m_flags /\ issued' = issued)]_vars

\* C16, amended: between BeginStateBlock and EndStateBlock a mutator that
\* consults ShouldRecord (SetRenderState with an id in range,
\* SetVertexShader, SetTexture) changes only the recorder block, which then
\* holds the mutation; SetRenderTarget and SetDepthStencilSurface are not
\* rerouted: they leave the block alone and, when the surface differs from
\* the bound one, change the state vector and set DirtyFramebuffer.
C16_ReroutedMutatorsRecord ==
  [][ /\ (ReroutedMutation /\ m_recorder.recording)
           => (m_state' = m_state /\ m_flags' = m_flags /\ issued' = issued
                 /\ m_recorder'.recording)
      /\ \A k \in {D3DRS_MULTISAMPLEMASK, 256}, v \in {0, 1} :
           (SetRenderStateCall(k, v) /\ m_recorder.recording)
             => IF LegalRenderState(k)
                  THEN m_recorder'.captured[<<"RenderState", k>>] = <<v, "">>
                  ELSE m_recorder' = m_recorder
      /\ \A shader \in {"VS", Null} :
           (SetVertexShaderCall(shader) /\ m_recorder.recording)
             => m_recorder'.captured[<<"VertexShader", 0>>] = <<0, shader>>
      /\ \A t \in {"TexA", Null} :
           (SetTextureCall(0, t) /\ m_recorder.recording)
             => m_recorder'.captured[<<"Texture", 0>>] = <<0, t>>
      /\ (DirectMutation /\ m_recorder.recording)
           => /\ m_recorder' = m_recorder
              /\ m_state' # m_state => "DirtyFramebuffer" \in m_flags' ]_vars

\* a render state was set while recording: the block holds the new value
\* and the device still has the old one
C16_Witness ==
  /\ m_recorder.recording
  /\ ret.op = "SetRenderState"
  /\ <<"RenderState", D3DRS_MULTISAMPLEMASK>> \in DOMAIN m_recorder.captured
  /\ m_recorder.captured[<<"RenderState", D3DRS_MULTISAMPLEMASK>>][1] = 1
  /\ m_state.renderStates[D3DRS_MULTISAMPLEMASK] = AllOnes

\* C17 as stated: SetRenderState(k, v) followed by GetRenderState(k)
\* yields v for every legal id k.
C17_SetThenGet ==
  [][\A k \in RenderStateArgs :
       (GetRenderStateCall(k) /\ ret.op = "SetRenderState" /\ ret.args[1] = k
          /\ LegalRenderState(k))
         => (ret'.hr = "D3D_OK" /\ ret'.value = ret.args[2])]_vars

\* the values SetRenderState takes as driver commands instead of storing
Intercepted(k, v) ==
  k = D3DRS_POINTSIZE /\ v \in {AlphaToCoverageEnable, AlphaToCoverageDisable}

\* C17, amended: outside a state-block recording, SetRenderState(k, v)
\* followed by GetRenderState(k) yields v for every id k from D3DRS_ZENABLE
\* to D3DRS_BLENDOPALPHA unless v is a value SetRenderState intercepts; for
\* the other accepted ids (0 and 210 to 255) GetRenderState yields 0.
C17_SetThenGetReadable ==
  [][\A k \in RenderStateArgs :
       (GetRenderStateCall(k) /\ ret.op = "SetRenderState" /\ ret.args[1] = k
          /\ LegalRenderState(k))
         => /\ ret'.hr = "D3D_OK"
            /\ (k < D3DRS_ZENABLE \/ k > D3DRS_BLENDOPALPHA) => ret'.value = 0
            /\ (k >= D3DRS_ZENABLE /\ k <= D3DRS_BLENDOPALPHA
                  /\ ~m_recorder.recording /\ ~Intercepted(k, ret.args[2]))
                 => ret'.value = ret.args[2]]_vars

\* the sample mask was set to 1 and read back
C17_Witness ==
  /\ ret.op = "GetRenderState"
  /\ ret.args[1] = D3DRS_MULTISAMPLEMASK
  /\ ret.value = 1
  /\ ~m_recorder.recording

\* ------------------------------------------------------------ hazards
\* the commands of t after the first n
Suffix(t, n) == SubSeq(t, n + 1, Len(t))

\* the positions in cmds of the layout transitions of image tex
Transitions(cmds, tex) ==
  {i \in 1..Len(cmds) : cmds[i].kind = "changeImageLayout" /\ cmds[i].arg = tex}

\* the images that are a written render target and a sampled texture
HazardImages(st) == {st.renderTargets[j] : j \in HazardTargets(st)}

\* C18: with the hazard scan enabled, the transition of an image to the
\* general layout is emitted exactly once per image: by the first draw at
\* which the image is a bound, written render target and a texture the
\* pixel shader samples, and by no step afterwards.
C18_TransitionOncePerImage ==
  [][\A tex \in Surfaces :
       Cardinality(Transitions(issued', tex))
         = IF /\ ret'.op = "DrawPrimitive"
              /\ tex \in HazardImages(m_state)
              /\ Transitions(issued, tex) = {}
             THEN 1
             ELSE Cardinality(Transitions(issued, tex))]_vars

\* a draw with TexA in hazard, after an earlier draw transitioned it
C18_Witness ==
  /\ ret.op = "DrawPrimitive"
  /\ "TexA" \in HazardImages(m_state)
  /\ \E i \in Transitions(issued, "TexA") : i <= ret.prev.count
  /\ ret.prev.count > 0

\* C19: on the draw at which a hazard is first detected, the framebuffer
\* binding is emitted again, with the image in the general layout, after
\* the layout transition and before the draw command.
C19_RebindAfterTransition ==
  [][ret'.op = "DrawPrimitive" =>
       LET new == Suffix(issued', Len(issued))
       IN  \A i \in DOMAIN new :
             new[i].kind = "changeImageLayout" =>
               \E k \in DOMAIN new, d \in DOMAIN new :
                 /\ i < k /\ k < d
                 /\ new[d].kind = "draw"
                 /\ new[k].kind = "bindRenderTargets"
                 /\ \E j \in RTIndices :
                      /\ new[k].arg.color[j].view = new[i].arg
                      /\ new[k].arg.color[j].layout = "GENERAL"]_vars

\* a draw that transitioned TexA although the framebuffer was clean: an
\* earlier draw had bound it
C19_Witness ==
  /\ ret.op = "DrawPrimitive"
  /\ ret.prev.count > 0
  /\ "DirtyFramebuffer" \notin ret.prev.flags
  /\ ret.prev.state.renderTargets = m_state.renderTargets
  /\ \E i \in Transitions(issued, "TexA") : i > ret.prev.count

\* ------------------------------------------------------------ sample mask
\* render target 0 of st has a multisample type above NONMASKABLE
Maskable(st) == MultiSample(st.renderTargets[0]) > D3DMULTISAMPLE_NONMASKABLE

\* C20: whenever render target 0 has no multisample type above
\* NONMASKABLE, the valid-sample-mask flag is unset and every multisample
\* state a step emits carries the all-ones sample mask, whatever the
\* MULTISAMPLEMASK render state holds and in whichever order the render
\* target and the render state were set; the multisample state in effect
\* at a draw then has the all-ones mask too.
C20_MaskForcedAllOnes ==
  [][ /\ ("ValidSampleMask" \in m_flags') = Maskable(m_state')
      /\ ~Maskable(m_state') =>
            /\ \A i \in DOMAIN Suffix(issued', Len(issued)) :
                 Suffix(issued', Len(issued))[i].kind = "setMultisampleState"
                   => Suffix(issued', Len(issued))[i].arg.sampleMask = AllOnes
            /\ ret'.op = "DrawPrimitive"
                 => NativeAfter(issued').ms.sampleMask = AllOnes ]_vars

\* a draw emitted a multisample state while render target 0 was the
\* NONMASKABLE surface and the render state held another mask
C20_Witness ==
  /\ ret.op = "DrawPrimitive"
  /\ m_state.renderTargets[0] = "TexNM"
  /\ m_state.renderStates[D3DRS_MULTISAMPLEMASK] = 1
  /\ \E i \in 1..Len(issued) :
       /\ i > ret.prev.count
       /\ issued[i].kind = "setMultisampleState"

\* ------------------------------------------------------------ memory allocator
\* the byte total of a free list
RECURSIVE FreeBytes(_)
FreeBytes(list) ==
  IF list = <<>> THEN 0 ELSE Head(list).length + FreeBytes(Tail(list))

\* the chunks the allocator holds, as <<memory type, index>>
ChunkIds == {<<t, i>> \in MemTypeIds \X (1..MaxChunks) : i <= Len(m_chunks[t])}

\* the requests a chunk may be asked for: up to the chunk size, with the
\* power-of-two alignments up to half of it
ChunkSizes == 1..chunkSize
ChunkAlignments == {1, 2, 4, 8}

\* the padding in front of the allocation ChunkAlloc makes for the request
\* (size, alignment) in chunk c, -1 when the allocation fails
Padding(c, size, alignment) ==
  LET r == ChunkAlloc(c, c.memory.memFlags, size, alignment, c.memory.priority)
      i == BestSlice(c.m_freeList, 1, 1, size)
  IN  IF r.memory = NullMemory THEN 0 - 1
      ELSE r.memory.offset - c.m_freeList[i].offset

\* C23: for every chunk state the allocator reaches and every size and
\* alignment, an allocation from the chunk that succeeds, followed by
\* freeing that allocation, leaves the chunk's free list with the byte
\* total it had before the allocation.
C23_AllocFreeRoundTrip ==
  \A id \in ChunkIds, size \in ChunkSizes, alignment \in ChunkAlignments :
    LET c == m_chunks[id[1]][id[2]]
        r == ChunkAlloc(c, c.memory.memFlags, size, alignment, c.memory.priority)
    IN  r.memory # NullMemory =>
          FreeBytes(ChunkFree(r.chunk, r.memory.offset,
                              r.memory.length).m_freeList)
            = FreeBytes(c.m_freeList)

\* after an allocation was freed, a chunk has a live allocation and several
\* free slices, and a request is served from it behind alignment padding,
\* with its length rounded up
C23_Witness ==
  /\ ret.op = "free"
  /\ \E id \in ChunkIds :
       /\ Len(m_chunks[id[1]][id[2]].m_freeList) >= 2
       /\ \E m \in m_live : m.type = id[1] /\ m.chunk = id[2]
       /\ Padding(m_chunks[id[1]][id[2]], chunkSize \div 4 - 1, 4) > 0

\* ranges [offset, offset + length) of a chunk: its free slices by index and
\* the live allocations made from it
Ranges(id) ==
  {<<"free", i, m_chunks[id[1]][id[2]].m_freeList[i].offset,
     m_chunks[id[1]][id[2]].m_freeList[i].length>> :
     i \in 1..Len(m_chunks[id[1]][id[2]].m_freeList)}
  \cup {<<"live", m.offset, m.offset, m.length>> :
          m \in {x \in m_live : x.type = id[1] /\ x.chunk = id[2]}}

Disjoint(a, b) == a[3] + a[4] <= b[3] \/ b[3] + b[4] <= a[3]

\* C24: in every reachable state, the free slices of each chunk and the
\* live allocations made from it are pairwise disjoint, and each lies
\* within the chunk.
C24_SlicesDisjoint ==
  \A id \in ChunkIds :
    /\ \A a \in Ranges(id) :
         /\ 0 <= a[3]
         /\ a[4] > 0
         /\ a[3] + a[4] <= m_chunks[id[1]][id[2]].memory.memSize
    /\ \A a, b \in Ranges(id) : a # b => Disjoint(a, b)
    /\ Cardinality({x \in m_live : x.type = id[1] /\ x.chunk = id[2]})
         = Cardinality({x.offset : x \in {y \in m_live : y.type = id[1]
                                                       /\ y.chunk = id[2]}})

\* an allocation was made while a chunk with a live allocation has an
\* exact-fit free slice that is too short once the end is aligned, so that
\* a request for it fails in that chunk
C24_Witness ==
  /\ ret.op = "alloc"
  /\ ret.memory # NullMemory
  /\ \E id \in ChunkIds :
       LET c == m_chunks[id[1]][id[2]]
       IN  /\ \E m \in m_live : m.type = id[1] /\ m.chunk = id[2]
           /\ Len(c.m_freeList) >= 2
           /\ ChunkAlloc(c, c.memory.memFlags, chunkSize \div 4 - 1, 4,
                         c.memory.priority).memory = NullMemory

\* C25: in every reachable state no two slices of a chunk's free list are
\* adjacent, so each entry is a maximal free range: a free merges the freed
\* range with the free slice before it and the free slice after it.
C25_FreeSlicesCoalesced ==
  \A id \in ChunkIds :
    LET list == m_chunks[id[1]][id[2]].m_freeList
    IN  \A i, j \in 1..Len(list) :
          list[i].offset + list[i].length # list[j].offset

\* a free returned a range that had a free slice on both sides: the two
\* slices and the range became one entry
C25_Witness ==
  /\ ret.op = "free"
  /\ ret.memory.chunk # 0
  /\ ret.merged = 2

\* C26: every allocation the allocator returns starts at an offset of its
\* device memory that is a multiple of the alignment of the request.
C26_OffsetAligned ==
  /\ ret.op = "alloc" /\ ret.memory # NullMemory
       => ret.memory.offset % ret.req.alignment = 0
  /\ \A m \in m_live : m.chunk = 0 => m.offset = 0

\* an allocation with alignment 4 was served from a free slice that starts
\* at an offset that is no multiple of 4
C26_Witness ==
  /\ ret.op = "alloc"
  /\ ret.memory.chunk # 0
  /\ ret.req.alignment = 4
  /\ \E i \in 1..Len(m_chunks[ret.memory.type][ret.memory.chunk].m_freeList) :
       LET s == m_chunks[ret.memory.type][ret.memory.chunk].m_freeList[i]
       IN  /\ s.offset + s.length = ret.memory.offset
           /\ s.offset % 4 # 0

\* a request of size bytes is below the size served by dedicated memory
BelowDedicatedSize(size) == size < chunkSize \div 4

\* C27 as stated: an allocation is dedicated exactly when its size exceeds
\* a quarter of the chunk size or a dedicated-allocation hint is present,
\* and is otherwise sub-allocated from a chunk.
C27_DedicatedIffExceedsOrHint ==
  ret.op = "alloc" /\ ret.memory # NullMemory =>
    ((ret.memory.chunk = 0)
       <=> (ret.req.size > chunkSize \div 4
              \/ ret.req.prefersDedicatedAllocation))

\* C27 as the code has it: an allocation of at least a quarter of the chunk
\* size, or one that requires dedicated memory, is dedicated; a smaller one
\* without a hint is sub-allocated; a smaller one that only prefers
\* dedicated memory is dedicated when the driver provides the memory and is
\* sub-allocated from a chunk when it does not.
C27_DedicatedFromQuarterOrHint ==
  ret.op = "alloc" /\ ret.memory # NullMemory =>
    /\ ~BelowDedicatedSize(ret.req.size) \/ ret.req.requiresDedicatedAllocation
         => ret.memory.chunk = 0
    /\ BelowDedicatedSize(ret.req.size) /\ ~ret.req.prefersDedicatedAllocation
         => ret.memory.chunk # 0
    /\ BelowDedicatedSize(ret.req.size) /\ ret.req.prefersDedicatedAllocation
         => ((ret.memory.chunk = 0) <=> (ret.req.size <= ret.avail))

\* a request of exactly a quarter of the chunk size without a hint was
\* served by dedicated memory
C27_Witness ==
  /\ ret.op = "alloc"
  /\ ret.req.size = chunkSize \div 4
  /\ ~ret.req.prefersDedicatedAllocation
  /\ ret.memory # NullMemory
  /\ ret.memory.chunk = 0

\* ------------------------------------------------------------ resource creation
CreateOps ==
  {"CreateTexture", "CreateVertexBuffer", "CreateIndexBuffer", "CreateBuffer"}

\* the code a creation call returns for memory exhaustion on its API
OutOfVideoMemory(op) ==
  IF op = "CreateBuffer" THEN "E_OUTOFMEMORY" ELSE "D3DERR_OUTOFVIDEOMEMORY"

\* C28: a resource-creation call whose memory request the allocator could
\* not satisfy returns the out-of-video-memory code.
C28_CreateReturnsOutOfVideoMemory ==
  ret.op \in CreateOps /\ ret.memory = NullMemory
    => ret.hr = OutOfVideoMemory(ret.op)

\* ------------------------------------------------------------ DO_NOT_WAIT
\* the call went through WaitForResource asking not to wait
AskedNoWait(r) ==
  /\ r.op \in {"MapBuffer", "LockBuffer"}
  /\ r.call.waited
  /\ r.call.req

FailureCodes ==
  {"D3DERR_INVALIDCALL", "D3DERR_WASSTILLDRAWING", "E_INVALIDARG",
   "DXGI_ERROR_WAS_STILL_DRAWING"}

\* C21: a step in which a call returns a failure code leaves the state
\* vector and the dirty set as they were, and the call has added nothing to
\* the command stream (but for the flush of an implicit flush).
C21_FailureLeavesNoTrace ==
  [][ (ret' # ret /\ ret'.hr \in FailureCodes) =>
        /\ m_state' = m_state
        /\ m_flags' = m_flags
        /\ \A i \in (ret'.base + 1)..(ret'.base + ret'.emitted) :
             issued'[i].kind = "flushCommandList" ]_vars

\* ------------------------------------------------------------ input layouts
\* the setInputLayout commands the worker has executed
ExecutedLayouts ==
  {i \in 1..Len(executed) : executed[i].kind = "setInputLayout"}

\* the input signature a setInputLayout command was translated against
SignatureOf(cmd) ==
  IF cmd.cVertexShader = Null THEN ffIsgn ELSE GetIsgn(cmd.cVertexShader)

\* the semantics that appear in a vertex declaration
DeclSemantics(decl) ==
  {ElementSemantic(Elements(decl)[k]) : k \in 1..Len(Elements(decl))}

\* the signature registers of cmd whose semantic the declaration has
MatchedRegisters(cmd) ==
  {k - 1 : k \in {k \in 1..Len(SignatureOf(cmd)) :
                    SignatureOf(cmd)[k] \in DeclSemantics(cmd.arg)}}

\* the layout the closure of cmd hands to the context
LayoutOf(cmd) ==
  IF cmd.arg = Null THEN InputLayout(Null, Null, <<>>)
  ELSE InputLayout(cmd.arg, cmd.cVertexShader, cmd.cStreamFreq)

Locations(layout) == {a.location : a \in layout.attrs}

\* C30 as stated: the attribute locations of every executed input layout
\* are exactly the signature registers whose semantic appears in the
\* declaration.
C30_LocationsAreMatchedRegisters ==
  \A i \in ExecutedLayouts :
    executed[i].arg # Null =>
      Locations(LayoutOf(executed[i])) = MatchedRegisters(executed[i])

\* C30: an executed input layout of a declaration has exactly one attribute
\* for every signature register; a register whose semantic appears in the
\* declaration reads the stream, format and offset of that element, any
\* other register reads the null stream at offset 0 with the default
\* format; only the matched streams count as used, and the layout of a null
\* declaration has no attribute at all.
C30_LocationsAreSignatureRegisters ==
  \A i \in ExecutedLayouts :
    LET cmd == executed[i]
        layout == LayoutOf(cmd)
    IN  IF cmd.arg = Null THEN layout.attrs = {}
        ELSE
          /\ Locations(layout) = 0..(Len(SignatureOf(cmd)) - 1)
          /\ Cardinality(layout.attrs) = Len(SignatureOf(cmd))
          /\ \A a \in layout.attrs :
               IF a.location \in MatchedRegisters(cmd)
                 THEN \E k \in 1..Len(Elements(cmd.arg)) :
                        LET e == Elements(cmd.arg)[k]
                        IN  /\ ElementSemantic(e) =
                                 SignatureOf(cmd)[a.location + 1]
                            /\ a.binding = e.Stream
                            /\ a.format = DecodeDecltype(e.Type)
                            /\ a.offset = e.Offset
                 ELSE /\ a.binding = NullStreamIdx
                      /\ a.format = "R32G32B32A32_SFLOAT"
                      /\ a.offset = 0
          /\ StreamsUsed(layout) =
               {a.binding : a \in {a \in layout.attrs :
                                     a.location \in MatchedRegisters(cmd)}}

\* the worker has executed the layout of a declaration against the
\* signature of a vertex shader of which one register has no element
C30_Witness ==
  \E i \in ExecutedLayouts :
    /\ executed[i].arg # Null
    /\ executed[i].cVertexShader # Null
    /\ MatchedRegisters(executed[i]) # {}
    /\ MatchedRegisters(executed[i]) # 0..(Len(SignatureOf(executed[i])) - 1)

\* ------------------------------------------------------------ closures
Highest(S) == CHOOSE x \in S : \A y \in S : y <= x

\* the layouts of a declaration among the commands cmds
DeclLayouts(cmds) ==
  {i \in 1..Len(cmds) : cmds[i].kind = "setInputLayout" /\ cmds[i].arg # Null}

\* the streams of the declaration elements a signature register reads
MatchedStreams(cmd) ==
  {Elements(cmd.arg)[k].Stream :
     k \in {k \in 1..Len(Elements(cmd.arg)) :
              \E r \in 1..Len(SignatureOf(cmd)) :
                SignatureOf(cmd)[r] = ElementSemantic(Elements(cmd.arg)[k])}}

\* the input-assembly state the commands cmds leave on the worker, told from
\* the values they captured: the instanced streams and the matched streams
\* of the last layout of a declaration, no stream used once the layout of a
\* null declaration followed it
CapturedIaState(cmds) ==
  IF DeclLayouts(cmds) = {} THEN NoIaState
  ELSE LET j == Highest(DeclLayouts(cmds))
       IN  [streamsInstanced |-> cmds[j].cStreamsInstanced,
            streamsUsed |->
              IF \E i \in (j + 1)..Len(cmds) : cmds[i].kind = "setInputLayout"
                THEN {} ELSE MatchedStreams(cmds[j])]

ExecutedDraws == {i \in 1..Len(executed) : executed[i].kind = "draw"}

\* the instance count the closure of the executed draw i passed on
InstanceCountOf(i) ==
  GenerateDrawInfo(CapturedIaState(SubSeq(executed, 1, i - 1)),
                   executed[i].cInstanceCount)

\* what the closure of cmd captured: the command but for its place in the
\* stream
Captures(cmd) == [cmd EXCEPT !.seq = 0]

\* C22 as stated: a closure uses only what it captured, so two executed
\* draws that captured the same values draw the same number of instances.
C22_EffectFromCapturesAlone ==
  \A i, j \in ExecutedDraws :
    Captures(executed[i]) = Captures(executed[j]) =>
      InstanceCountOf(i) = InstanceCountOf(j)

\* C22: what the executed commands have done on the worker is told by the
\* values they captured and by their order alone: the worker's
\* input-assembly state is the one the captured declarations, shaders and
\* instanced streams of the executed layouts give, whatever the producer's
\* state has become since.
C22_WorkerStateFromCaptures ==
  m_iaState = CapturedIaState(executed)

\* the worker has executed a layout and a draw with instanced streams in
\* use, after the producer has already unbound the declaration
C22_Witness ==
  /\ ExecutedDraws # {}
  /\ m_state.vertexDecl = Null
  /\ m_iaState.streamsInstanced \cap m_iaState.streamsUsed # {}
  /\ \E i \in ExecutedLayouts : executed[i].arg # Null

\* ------------------------------------------------------------ feature level
\* C31: over any sequence of calls the advertised feature level never
\* decreases; it changes only in a CreateDeviceContextState call, to a level
\* that the call requested and that the adapter supports.
C31_FeatureLevelOnlyRaised ==
  [][ /\ m_featureLevel' >= m_featureLevel
      /\ m_featureLevel' # m_featureLevel =>
           /\ ret'.op = "CreateDeviceContextState"
           /\ ~ret'.nullLevels
           /\ \E k \in 1..Len(ret'.levels) : ret'.levels[k] = m_featureLevel'
           /\ CheckFeatureLevelSupport(m_featureLevel') ]_vars

\* a call has raised the advertised level to the level it chose
C31_Witness ==
  /\ ret.op = "CreateDeviceContextState"
  /\ ret.before < m_featureLevel
  /\ ret.chosen = m_featureLevel

\* ------------------------------------------------------------ views
\* C32: creating a depth-stencil view for a buffer returns S_OK and yields
\* a null view object.
C32_BufferViewIsNullAndOk ==
  (ret.op = "CreateDepthStencilView" /\ ret.dim = "BUFFER") =>
    (ret.hr = "S_OK" /\ ret.view = Null)

\* ------------------------------------------------------------ slice choice
\* the free slices, before the step, of the chunk the memory m was carved
\* from: a chunk the step has created starts as one free slice
SourceSlices(m) ==
  IF m.chunk <= Len(m_chunks[m.type])
    THEN {m_chunks[m.type][m.chunk].m_freeList[k] :
            k \in 1..Len(m_chunks[m.type][m.chunk].m_freeList)}
    ELSE {[offset |-> 0, length |-> chunkSize]}

\* the free slice that held the range of m before the step
CarvedFrom(m) ==
  CHOOSE s \in SourceSlices(m) :
    s.offset <= m.offset /\ m.offset + m.length <= s.offset + s.length

FitsAligned(s, size, alignment) ==
  align(s.offset, alignment) + size <= s.offset + s.length

\* C34: when an allocation is served by chunk n of a memory type, no
\* earlier chunk of the type with the same flags and priority had a free
\* slice that could hold the aligned request: a chunk's alloc fails only
\* when none of its free slices can hold it.
C34_FailsOnlyWhenNothingFits ==
  [][ (ret'.op = "alloc" /\ ret'.memory.chunk # 0) =>
        LET m == ret'.memory
            served == m_chunks'[m.type][m.chunk].memory
        IN  \A i \in 1..(m.chunk - 1) :
              LET c == m_chunks[m.type][i]
              IN  (c.memory.memFlags = served.memFlags
                     /\ c.memory.priority = served.priority) =>
                    \A k \in 1..Len(c.m_freeList) :
                      ~FitsAligned(c.m_freeList[k], ret'.req.size,
                                   ret'.req.alignment) ]_vars

\* ------------------------------------------------------------ recording
\* C36: BeginStateBlock succeeds exactly when nothing is being recorded and
\* then starts an empty recording; EndStateBlock succeeds only when a
\* recording is active (and the out-pointer is not null), returns that
\* recording's block and ends the recording; a failed Begin or End leaves
\* the recorder as it was, and no other call starts or ends a recording.
C36_RecordingIsTwoState ==
  [][ /\ ret'.op = "BeginStateBlock" =>
           /\ (ret'.hr = "D3D_OK") <=> ~m_recorder.recording
           /\ ret'.hr = "D3D_OK" =>
                m_recorder' = [recording |-> TRUE, captured |-> <<>>]
           /\ ret'.hr # "D3D_OK" =>
                (ret'.hr = "D3DERR_INVALIDCALL" /\ m_recorder' = m_recorder)
      /\ ret'.op = "EndStateBlock" =>
           /\ (ret'.hr = "D3D_OK") <=>
                (m_recorder.recording /\ ret'.args[2] # Null)
           /\ ret'.hr = "D3D_OK" =>
                (ret'.value = m_recorder /\ m_recorder' = NoRecorder)
           /\ ret'.hr # "D3D_OK" =>
                (ret'.hr = "D3DERR_INVALIDCALL" /\ m_recorder' = m_recorder)
      /\ m_recorder'.recording # m_recorder.recording =>
           (ret'.op \in {"BeginStateBlock", "EndStateBlock"}
              /\ ret'.hr = "D3D_OK") ]_vars

\* EndStateBlock has ended a recording and returned the block, which
\* captured a mutation
C36_Witness ==
  /\ ret.op = "EndStateBlock"
  /\ ret.hr = "D3D_OK"
  /\ ret.value.recording
  /\ ret.value.captured # <<>>
  /\ ~m_recorder.recording


\* ------------------------------------------------------------ render targets

\* C37: GetRenderTarget and SetRenderTarget reject every index outside
\* 0 .. MaxSimultaneousRenderTargets-1 with INVALIDCALL, so no slot outside
\* the array is read or written.
C37_IndexOutsideArrayRejected ==
  (ret.op \in {"GetRenderTarget", "SetRenderTarget"} /\ ret.args[1] \notin RTIndices)
    => ret.hr = "D3DERR_INVALIDCALL"

\* C38: when ResetEx has returned D3D_OK, render target 0 is the back
\* buffer of the implicit swap chain and every other slot is unbound.
C38_ResetUnbindsOtherTargets ==
  (ret.op = "ResetEx" /\ ret.hr = "D3D_OK")
    => /\ m_state.renderTargets[0] = "BackBuffer"
       /\ \A i \in RTIndices \ {0} : m_state.renderTargets[i] = Null


\* ------------------------------------------------------------ the dirty set

\* the dirty bits of D3D9DeviceFlag the model keeps
DirtyFlags ==
  {"DirtyFramebuffer", "DirtyViewportScissor", "DirtyBlendState",
   "DirtyMultiSampleState", "DirtyInputLayout", "DirtyFFVertexShader",
   "DirtyFFPixelShader", "DirtyFFVertexData", "DirtyFFPixelData",
   "DirtyFFViewport"}
\* the bits PrepareDraw resolves whatever shaders are bound
PipelineDirtyFlags ==
  {"DirtyFramebuffer", "DirtyViewportScissor", "DirtyBlendState",
   "DirtyMultiSampleState", "DirtyInputLayout"}

\* C39 as stated: when a draw has been prepared, no bit of the dirty set is
\* set, and no sampler is dirty.
C39_EveryDirtyBitClear ==
  ret.op = "DrawPrimitive"
    => m_flags \cap DirtyFlags = {} /\ m_dirtySamplerStates = {}

\* C39: when a draw has been prepared, the pipeline bits and the sampler
\* bits are clear; the fixed-function bits of a stage are clear if the draw
\* ran that stage fixed-function, the viewport bit if the declaration has
\* transformed positions.
C39_ResolvedBitsClear ==
  ret.op = "DrawPrimitive"
    => /\ m_flags \cap PipelineDirtyFlags = {}
       /\ m_dirtySamplerStates = {}
       /\ ~UseProgrammableVS(m_state)
            => /\ m_flags \cap {"DirtyFFVertexShader", "DirtyFFVertexData"} = {}
               /\ (m_state.vertexDecl # Null /\ HasPositionT(m_state.vertexDecl))
                    => "DirtyFFViewport" \notin m_flags
       /\ ~UseProgrammablePS(m_state)
            => m_flags \cap {"DirtyFFPixelShader", "DirtyFFPixelData"} = {}

\* a draw with a pixel shader bound bound a dirty sampler and left the
\* fixed-function pixel shader bit set
C39_Witness ==
  /\ ret.op = "DrawPrimitive"
  /\ UseProgrammablePS(m_state)
  /\ "DirtyFFPixelShader" \in m_flags
  /\ ~UseProgrammableVS(m_state)
  /\ \E i \in (ret.base + 1)..Len(issued) : issued[i].kind = "bindResourceSampler"


\* ------------------------------------------------------------ command lists

\* a command of an executed command list was appended to h after the last
\* flushCommandList in h
ListPending(h) ==
  \E i \in 1..Len(h) :
    /\ h[i].kind = "listDraw"
    /\ \A j \in (i + 1)..Len(h) : h[j].kind # "flushCommandList"

\* C35: a Flush called while a command list handed to the worker has not
\* been followed by a submit appends flushCommandList after the list's
\* commands and publishes it, whether or not the immediate context has
\* emitted a command since ExecuteCommandList.
C35_FlushSubmitsCommandList ==
  [][(ret'.op = "Flush" /\ ret' # ret /\ ListPending(issued))
       => /\ Len(issued') = Len(issued) + 1
          /\ issued'[Len(issued')].kind = "flushCommandList"
          /\ csQueue' # <<>>
          /\ LET last == csQueue'[Len(csQueue')]
             IN  last[Len(last)] = issued'[Len(issued')]]_vars

\* Flush appended the submit with nothing in the current chunk: the chunk
\* that followed the command list had been published by SynchronizeCsThread
C35_Witness ==
  /\ ret.op = "Flush"
  /\ ret.emitted = 1
  /\ issued[Len(issued)].kind = "flushCommandList"
  /\ issued[Len(issued) - 1].kind \in {"restoreState", "clearState"}
  /\ Len(csQueue) > 0
  /\ Len(csQueue[Len(csQueue)]) = 1


\* ------------------------------------------------------------ blocking waits

\* a map is inside WaitForResource and may not fail with still-drawing
Blocked == pc.at \in {"wait_cs", "wait_gpu"} /\ ~pc.nowait

\* WaitForResource has flushed and synchronized and polls isInUse
Polling == pc.at = "wait_gpu" /\ csQueue = <<>>

\* C33: when a blocking map starts to poll the resource, the worker has
\* executed every command issued and the command list in recording holds no
\* use of the resource, so every use is in a submission already made; and
\* every blocking map inside WaitForResource eventually returns.
C33_BlockingMapReturns ==
  /\ [](Polling => (executed = issued /\ pc.res \notin cmdList.use))
  /\ (Blocked ~> pc = Idle)

\* a blocking map that found the resource in use, flushed and waited has
\* returned with the resource idle
C33_Witness ==
  /\ ret.op \in {"MapBuffer", "LockBuffer"}
  /\ ret.hr \in Succeeded
  /\ ~ret.call.nowait
  /\ ret.call.at = "wait_gpu"
  /\ ret.emitted > 0
  /\ issued[Len(issued)].kind = "flushCommandList"
  /\ ~ret.inUse

====
